---- MODULE Spec2Model ----
(***************************************************************************)
(* Atlas Forge: the job controller of the branch-generation engine.        *)
(*                                                                         *)
(* The model follows src/server/routes/forge.mjs (the /estimate, /start,   *)
(* /stream and /cancel routes and the stderr and close handlers of the     *)
(* engine child process) over the JSON database of src/unnamed/part_016.   *)
(* Every handler is cut at its awaits: the database functions change the   *)
(* in-memory tables synchronously when called and then await the save to   *)
(* disk, so the caller's continuation runs as a later event-loop task and  *)
(* other handlers may run in between.                                      *)
(*                                                                         *)
(* The routes reach the database as atlasDb and call the functions of the  *)
(* JSON database (createJob, updateJob, getJob, batchCreateResults), so    *)
(* that is the database modelled. Saves to disk are taken to succeed.      *)
(*                                                                         *)
(* The engine itself (python/optimized_forge_engine.py) is not part of the *)
(* sources; what it may print and how it may exit is modelled from the     *)
(* specification (Enumerator, Scheduler, Aggregator) as the environment.   *)
(***************************************************************************)
EXTENDS Integers, Sequences, FiniteSets, TLC

VARIABLES
    jobs,          \* db.jobs: the job records, in creation order
    nextJobId,     \* nextId.jobs
    results,       \* db.results: the result rows, in insertion order
    nextResultId,  \* nextId.results
    activeJobs,    \* keys of the activeJobs map
    sseClients,    \* the sseClients map: job id -> list of subscribed clients
    proc,          \* the engine child process of each job
    startWait,     \* /start handlers awaiting createJob
    cancelWait,    \* /cancel handlers awaiting updateJob
    closePc,       \* position of each job's close handler
    clientPc,      \* position of each client's /stream handler
    clientJob,     \* the job id each client asked to stream
    clientFound,   \* whether getJob found the job when the client subscribed
    inbox,         \* the events written to each client's stream
    ended,         \* whether the server ended the client's stream
    cancelAccepted,\* history: jobs whose cancel was accepted while stored as running
    estimate,      \* the last answer of /estimate
    tickerRegistry,\* db.tickerRegistry
    lastSyncState, \* db.lastSyncState
    call,          \* the last call made on the database directly, with what it returned
    disk,          \* the database that db.json holds: what load() would read
    saves,         \* the writes of db.json that are in flight
    instance,      \* ForgeDashboard: how many were mounted, and whether one is now
    forgeJob,      \* useForgeJob state of the mounted dashboard
    localStorage,  \* localStorage item forge_active_job
    forgeStream,   \* useForgeStream state of the mounted dashboard
    fetches,       \* the browser's requests that are in flight
    dashboard,     \* what the dashboard's effect saw when it last ran
    storage,       \* the text localStorage holds under forge_active_job
    saved,         \* the arguments of the last saveActiveJob that wrote, if nothing wrote or cleared since
    restored,      \* what the last call returned, if it was restoreActiveJob
    backtestCache, \* the rows of table backtest_cache
    lastRefreshDate, \* cache_metadata's last_refresh_date, 0 when there is no such row
    today,         \* the date of the server's clock
    clock,         \* Date.now() of the server
    latest,        \* per bot, the last setCachedBacktest since the bot's rows were last deleted
    cacheCall,     \* the last call on the cache, with what it returned
    users,         \* the rows of table users
    authCall,      \* the last request through the auth middlewares, with what they did
    kernel,        \* the last run of one of the engine's kernels: its input and output
    sync,          \* data.mjs: syncState, currentProcess, the download processes and pending handlers
    hook,          \* the state of one of the client's hooks modelled by itself
    reply          \* what POST /cancel/:jobId answered last, where the answers are recorded

\* The registry tables and the record of direct database calls
dbVars == <<tickerRegistry, lastSyncState, call>>

\* The file db.json
diskVars == <<disk, saves>>

\* The browser
uiVars == <<instance, forgeJob, localStorage, forgeStream, fetches, dashboard>>

\* The components that are modelled by themselves: useForgeJobPersistence,
\* cache.mjs, auth.mjs, the engine's kernels, data.mjs and the client's hooks
storageVars == <<storage, saved, restored>>
cacheVars == <<backtestCache, lastRefreshDate, today, clock, latest, cacheCall>>
authVars == <<users, authCall>>
kernelVars == <<kernel>>
syncVars == <<sync>>
hookVars == <<hook>>
replyVars == <<reply>>
libVars == <<storageVars, cacheVars, authVars, kernelVars, syncVars, hookVars, replyVars>>

\* The forge application, which these components leave alone
appVars == <<jobs, nextJobId, results, nextResultId, activeJobs, sseClients, proc,
             startWait, cancelWait, closePc, clientPc, clientJob, clientFound,
             inbox, ended, cancelAccepted, estimate, dbVars, diskVars, uiVars>>

\* What the actions of one component leave alone
exceptStorage == <<appVars, cacheVars, authVars, kernelVars, syncVars, hookVars, replyVars>>
exceptCache == <<appVars, storageVars, authVars, kernelVars, syncVars, hookVars, replyVars>>
exceptAuth == <<appVars, storageVars, cacheVars, kernelVars, syncVars, hookVars, replyVars>>
exceptKernel == <<appVars, storageVars, cacheVars, authVars, syncVars, hookVars, replyVars>>
exceptSync == <<appVars, storageVars, cacheVars, authVars, kernelVars, hookVars, replyVars>>
exceptHook == <<appVars, storageVars, cacheVars, authVars, kernelVars, syncVars, replyVars>>

vars == <<jobs, nextJobId, results, nextResultId, activeJobs, sseClients, proc,
          startWait, cancelWait, closePc, clientPc, clientJob, clientFound,
          inbox, ended, cancelAccepted, estimate, dbVars, diskVars, uiVars, libVars>>

----------------------------------------------------------------------------
(* Bounds of the model *)

MaxJobs == 1
MaxClients == 1
MaxTickers == 2
MaxPeriod == 3
MaxThreshold == 2
MaxMetric == 2
MaxStarts == 2
MaxBots == 2
MaxDays == 2
MaxSets == 3
MaxUsers == 2
MaxSources == 2

Max(a, b) == IF a >= b THEN a ELSE b

\* The job ids and the stream connections of the model. Requests posted to
\* the server directly use the first MaxJobs ids and MaxClients connections;
\* the dashboard starts up to MaxStarts jobs and opens up to MaxSources
\* connections.
JobIds == 1..Max(MaxJobs, MaxStarts)
Clients == 1..Max(MaxClients, MaxSources)

TickerNames == <<"SPY", "QQQ", "IWM", "DIA">>
TickerLists == {SubSeq(TickerNames, 1, n) : n \in 0..MaxTickers}

Undefined == "undefined"

\* A family that takes no period parameter (spec, GLOSSARY: current price, date).
WindowlessFamilies == {"Current Price", "Date"}

\* Job configurations a client can post: the code accepts any of them.
\* thresholdStep = 0 is left out: the division then yields Infinity or NaN.
AllConfigs ==
    [indicator : {"RSI", "Current Price"},
     periodMin : 0..MaxPeriod,
     periodMax : 0..MaxPeriod,
     tickers : TickerLists,
     comparator : {"LT", "GT", "BOTH"},
     thresholdMin : 0..MaxThreshold,
     thresholdMax : 0..MaxThreshold,
     thresholdStep : {-1, 1, 2}]

\* The configuration constraints of the specification (section 6).
ValidConfig(cfg) ==
    /\ Len(cfg.tickers) > 0
    /\ cfg.periodMin > 0
    /\ cfg.periodMax > 0
    /\ cfg.periodMin <= cfg.periodMax
    /\ cfg.thresholdMin <= cfg.thresholdMax
    /\ cfg.thresholdStep > 0

----------------------------------------------------------------------------
(* Pure functions *)

\* Math.floor(a / b) for b # 0
FloorDiv(a, b) == IF b > 0 THEN a \div b ELSE (0 - a) \div (0 - b)

\* forge.mjs 22-27 and 50-54: the branch count of a config
TotalBranches(cfg) ==
    LET periodRange == cfg.periodMax - cfg.periodMin + 1
        comparatorCount == IF cfg.comparator = "BOTH" THEN 2 ELSE 1
        thresholdCount == FloorDiv(cfg.thresholdMax - cfg.thresholdMin, cfg.thresholdStep) + 1
        tickerCount == Len(cfg.tickers)
    IN  periodRange * comparatorCount * thresholdCount * tickerCount

\* db.jobs.find(j => j.id === id): the index of the job, 0 when there is none
FindJob(id) ==
    IF \E i \in 1..Len(jobs) : jobs[i].id = id
    THEN CHOOSE i \in 1..Len(jobs) : jobs[i].id = id /\ \A k \in 1..(i-1) : jobs[k].id # id
    ELSE 0

\* jsonDb.updateJob: Object.assign(job, updates) when the job is found
UpdateJob(id, updates) ==
    LET i == FindJob(id)
    IN  IF i = 0 THEN jobs
        ELSE [jobs EXCEPT ![i] =
                [f \in DOMAIN jobs[i] \cup DOMAIN updates |->
                    IF f \in DOMAIN updates THEN updates[f] ELSE jobs[i][f]]]

----------------------------------------------------------------------------
\* A job whose engine has not been spawned yet
NoProcess == [state |-> "none", killed |-> FALSE, tickersDone |-> 0, passed |-> <<>>,
              passedAtKill |-> 0, code |-> Undefined, out |-> [kind |-> "none"]]

\* NewJob with the job stored as pending
NewJobPending(id, cfg) ==
    [id |-> id,
     config |-> cfg,
     status |-> "pending",
     totalBranches |-> TotalBranches(cfg),
     completedBranches |-> 0,
     passingBranches |-> 0,
     error |-> Undefined]

\* The record /start hands to createJob, with the id createJob gives it
\* (forge.mjs 57-64, part_016 81)
NewJob(id, cfg) ==
    [id |-> id,
     config |-> cfg,
     status |-> "running",
     totalBranches |-> TotalBranches(cfg),
     completedBranches |-> 0,
     passingBranches |-> 0,
     error |-> Undefined]

\* JSON.stringify({ db, nextId }) (part_016 50): the tables the model keeps
Memory ==
    [jobs |-> jobs, results |-> results, tickerRegistry |-> tickerRegistry,
     lastSyncState |-> lastSyncState,
     nextId |-> [jobs |-> nextJobId, results |-> nextResultId]]

\* save() is called (part_016 47-52): the snapshot is taken at once, of the
\* tables as the caller leaves them, and the write of the file is in flight.
\* by names the caller awaiting it.
SaveBegun(by) ==
    /\ saves' = saves \cup {[by |-> by, data |-> Memory']}
    /\ UNCHANGED disk

\* The write in flight for the caller
SaveOf(by) == CHOOSE w \in saves : w.by = by

\* The write of the caller has finished: the file holds its snapshot. Writes
\* in flight together finish in any order (fs.writeFile gives none).
SaveEnded(by) ==
    /\ disk' = SaveOf(by).data
    /\ saves' = saves \ {SaveOf(by)}

\* The caller's write has finished and it calls save() again
SaveEndedAndBegun(by) ==
    /\ disk' = SaveOf(by).data
    /\ saves' = (saves \ {SaveOf(by)}) \cup {[by |-> by, data |-> Memory']}

NoSync == [yfinance |-> "null", tiingo |-> "null"]

\* data.mjs 13-30: syncState with no download running and currentProcess null
\* (currentJob and currentProcess 0), before any request; registry is the
\* number of tickers in the ticker registry
NoSyncs ==
    [isRunning |-> FALSE, currentJob |-> 0, syncedCount |-> 0, lastSync |-> NoSync,
     currentProcess |-> 0, tiingoApiKey |-> FALSE, registry |-> 0,
     downloads |-> <<>>, response |-> [status |-> 0]]

Init ==
    /\ jobs = <<>>
    /\ nextJobId = 1
    /\ results = <<>>
    /\ nextResultId = 1
    /\ activeJobs = {}
    /\ sseClients = [j \in JobIds |-> <<>>]
    /\ proc = [j \in JobIds |-> NoProcess]
    /\ startWait = {}
    /\ cancelWait = {}
    /\ closePc = [j \in JobIds |-> "idle"]
    /\ clientPc = [c \in Clients |-> "idle"]
    /\ clientJob = [c \in Clients |-> 0]
    /\ clientFound = [c \in Clients |-> FALSE]
    /\ inbox = [c \in Clients |-> <<>>]
    /\ ended = [c \in Clients |-> FALSE]
    /\ cancelAccepted = {}
    /\ estimate = [asked |-> FALSE]
    /\ tickerRegistry = <<>>
    /\ lastSyncState = NoSync
    /\ call = [op |-> "none"]
    /\ disk = Memory
    /\ saves = {}
    /\ instance = [n |-> 0, mounted |-> FALSE]
    /\ forgeJob = [jobId |-> 0, running |-> FALSE, startTime |-> 0]
    /\ localStorage = [stored |-> FALSE]
    /\ forgeStream = [status |-> [status |-> "null"], jobId |-> 0, source |-> 0,
                      open |-> {}, timers |-> {}, seen |-> 0]
    /\ fetches = {}
    /\ dashboard = [status |-> [status |-> "null"], running |-> FALSE]
    /\ storage = [text |-> "none"]
    /\ saved = [args |-> "none"]
    /\ restored = [called |-> FALSE]
    /\ backtestCache = <<>>
    /\ lastRefreshDate = 0
    /\ today = 1
    /\ clock = 1
    /\ latest = [b \in 1..MaxBots |-> [set |-> FALSE]]
    /\ cacheCall = [op |-> "none"]
    /\ users = [id \in 1..MaxUsers |-> [status |-> "active", role |-> "user"]]
    /\ authCall = [chain |-> "none"]
    /\ kernel = [run |-> "none"]
    /\ sync = NoSyncs
    /\ hook = [name |-> "none"]
    /\ reply = [n |-> 0, jobId |-> 0, active |-> FALSE, status |-> 0]

\* POST /estimate (forge.mjs 17-42)
Estimate(cfg) ==
    /\ estimate' = [asked |-> TRUE, config |-> cfg, totalBranches |-> TotalBranches(cfg)]
    /\ UNCHANGED <<jobs, nextJobId, results, nextResultId, activeJobs, sseClients, proc,
                   startWait, cancelWait, closePc, clientPc, clientJob, clientFound,
                   inbox, ended, cancelAccepted,
                   dbVars, libVars, diskVars, uiVars>>

\* POST /start up to the await of createJob (forge.mjs 45-64, part_016 80-85)
StartCreate(cfg) ==
    /\ jobs' = Append(jobs, NewJob(nextJobId, cfg))
    /\ nextJobId' = nextJobId + 1
    /\ startWait' = startWait \cup {nextJobId}
    /\ UNCHANGED <<results, nextResultId, activeJobs, sseClients, proc,
                   cancelWait, closePc, clientPc, clientJob, clientFound,
                   inbox, ended, cancelAccepted, estimate,
                   dbVars, libVars, uiVars>>
    /\ SaveBegun(<<"createJob", nextJobId>>)

----------------------------------------------------------------------------
(* The engine process, as the specification describes it *)

\* Enumerator (spec 4.7): the windows, comparators and thresholds of a config.
\* An empty range yields no branch.
PeriodsOf(cfg) ==
    IF cfg.indicator \in WindowlessFamilies THEN <<0>>
    ELSE [i \in 1..Max(0, cfg.periodMax - cfg.periodMin + 1) |-> cfg.periodMin + i - 1]

ComparatorsOf(cfg) == IF cfg.comparator = "BOTH" THEN <<"LT", "GT">> ELSE <<cfg.comparator>>

ThresholdsOf(cfg) ==
    IF cfg.thresholdStep > 0 /\ cfg.thresholdMin <= cfg.thresholdMax
    THEN [i \in 1..((cfg.thresholdMax - cfg.thresholdMin) \div cfg.thresholdStep + 1) |->
            cfg.thresholdMin + (i - 1) * cfg.thresholdStep]
    ELSE <<>>

\* The branches of one ticker, window outermost, then comparator, then threshold.
TickerBranches(cfg, ticker) ==
    LET ps == PeriodsOf(cfg)
        cs == ComparatorsOf(cfg)
        ts == ThresholdsOf(cfg)
    IN  [n \in 1..(Len(ps) * Len(cs) * Len(ts)) |->
            [ticker |-> ticker,
             indicator |-> cfg.indicator,
             period |-> ps[((n - 1) \div (Len(cs) * Len(ts))) + 1],
             comparator |-> cs[(((n - 1) \div Len(ts)) % Len(cs)) + 1],
             threshold |-> ts[((n - 1) % Len(ts)) + 1]]]

\* The subsequence of s at the indices in S, in order
RECURSIVE SelectAt(_, _, _)
SelectAt(s, S, i) ==
    IF i > Len(s) THEN <<>>
    ELSE (IF i \in S THEN <<s[i]>> ELSE <<>>) \o SelectAt(s, S, i + 1)

\* A BranchResult as the engine reports it (spec 3): the branch, its in-sample
\* metrics under the names the close handler reads, and its out-of-sample
\* metrics. timar is the in-sample TIMAR; the other metrics are fixed values.
EngineResult(branch, timar) ==
    [ticker |-> branch.ticker, indicator |-> branch.indicator, period |-> branch.period,
     comparator |-> branch.comparator, threshold |-> branch.threshold,
     TIM |-> 1, TIMAR |-> timar, MaxDD |-> 0, CAGR |-> 1, Trades |-> 1, AvgHold |-> 1,
     Sharpe |-> 1, DD3 |-> 0, DD50 |-> 0, DD95 |-> 0, TIMAR3 |-> timar,
     OOS |-> [TIM |-> 1, TIMAR |-> timar]]

\* What the last line of the engine's stdout may be when it exits with code 0:
\* not JSON at all, a failure report, or (once every ticker is done) the result.
EngineLastLines(cfg, p) ==
    {[kind |-> "garbage"]}
    \cup {[kind |-> "json", success |-> FALSE, error |-> e] : e \in {Undefined, "No price data"}}
    \cup {[kind |-> "json", success |-> TRUE, passingCount |-> Len(p.passed),
           results |-> p.passed, hasStats |-> st] :
            st \in {b \in BOOLEAN : p.tickersDone = Len(cfg.tickers)}}

\* How the process may end: killed by the signal (exit code null), crashed, or
\* exited by itself, which it may also have done just before the signal landed.
EngineExits(cfg, p) ==
    {[code |-> "null", out |-> [kind |-> "none"]] : k \in {b \in {TRUE} : p.killed}}
    \cup {[code |-> "1", out |-> [kind |-> "none"]]}
    \cup {[code |-> "0", out |-> l] : l \in EngineLastLines(cfg, p)}

----------------------------------------------------------------------------
(* The server's handlers *)

JobOf(id) == jobs[FindJob(id)]

\* clients.forEach(client => client.write(...)): a write to an ended stream is lost
Written(box, list, msg) ==
    [c \in Clients |->
        IF (\E i \in 1..Len(list) : list[i] = c) /\ ~ended[c]
        THEN Append(box[c], msg) ELSE box[c]]

\* clients.forEach(client => client.end())
Ended(list) == [c \in Clients |-> ended[c] \/ \E i \in 1..Len(list) : list[i] = c]

\* POST /start after createJob returned: spawn the engine (forge.mjs 66-81)
StartSpawn(j) ==
    /\ j \in startWait
    /\ startWait' = startWait \ {j}
    /\ proc' = [proc EXCEPT ![j] = [NoProcess EXCEPT !.state = "running"]]
    /\ activeJobs' = activeJobs \cup {j}
    /\ UNCHANGED <<jobs, nextJobId, results, nextResultId, sseClients,
                   cancelWait, closePc, clientPc, clientJob, clientFound,
                   inbox, ended, cancelAccepted, estimate,
                   dbVars, libVars, uiVars>>
    /\ SaveEnded(<<"createJob", j>>)

\* forge.mjs 98-100: the completed branches a progress line stands for
ProgressCompleted(totalBranches, tickerCount, tickersCompleted) ==
    LET branchesPerTicker == totalBranches \div tickerCount  \* exact: tickerCount divides it
    IN  tickersCompleted * branchesPerTicker

\* forge.mjs 114-120
ProgressMessage(j, totalBranches, completedBranches, passingCount) ==
    [jobId |-> j, status |-> "running", totalBranches |-> totalBranches,
     completedBranches |-> completedBranches, passingBranches |-> passingCount]

\* The engine finishes its next ticker and prints "Progress: k/n tickers ... p
\* passing" on stderr; python.stderr.on('data') handles the chunk (forge.mjs
\* 84-129). elapsed: more than 2 seconds passed since the last stored update.
ProgressLine(j, S, timar, elapsed) ==
    /\ proc[j].state = "running"
    /\ LET job == JobOf(j)
           cfg == job.config
           k == proc[j].tickersDone + 1
       IN  /\ k <= Len(cfg.tickers)
           /\ LET branches == TickerBranches(cfg, cfg.tickers[k])
                  passing == SelectAt(branches, S, 1)
                  passed == proc[j].passed \o
                      [i \in 1..Len(passing) |-> EngineResult(passing[i], timar)]
                  passingCount == Len(passed)
                  completedBranches ==
                      ProgressCompleted(job.totalBranches, Len(cfg.tickers), k)
              IN  /\ S \subseteq 1..Len(branches)
                  /\ proc' = [proc EXCEPT ![j].tickersDone = k, ![j].passed = passed]
                  /\ IF elapsed
                     THEN /\ jobs' = UpdateJob(j, [completedBranches |-> completedBranches,
                                                  passingBranches |-> passingCount])
                          /\ inbox' = Written(inbox, sseClients[j],
                                 ProgressMessage(j, job.totalBranches, completedBranches,
                                                 passingCount))
                     ELSE UNCHANGED <<jobs, inbox>>
    /\ UNCHANGED <<nextJobId, results, nextResultId, activeJobs, sseClients,
                   startWait, cancelWait, closePc, clientPc, clientJob, clientFound,
                   ended, cancelAccepted, estimate,
                   dbVars, libVars, uiVars>>
    /\ IF elapsed
       THEN SaveBegun(<<"progress", j, proc[j].tickersDone + 1>>)
       ELSE UNCHANGED diskVars

\* The write of a progress update finishes; nobody awaits it (forge.mjs 107-110)
ProgressSaved(j, k) ==
    /\ \E w \in saves : w.by = <<"progress", j, k>>
    /\ SaveEnded(<<"progress", j, k>>)
    /\ UNCHANGED <<jobs, nextJobId, results, nextResultId, activeJobs, sseClients, proc,
                   startWait, cancelWait, closePc, clientPc, clientJob, clientFound,
                   inbox, ended, cancelAccepted, estimate, dbVars, libVars, uiVars>>

\* result.field: undefined when the parsed object has no such field
Field(rec, name) == IF name \in DOMAIN rec THEN rec[name] ELSE Undefined

\* JSON.parse of the last stdout line and the checks of forge.mjs 168-177:
\* "ok" when the handler goes on to save, else the message of the error thrown
ParseOutcome(out) ==
    IF out.kind # "json" THEN "Unexpected token"
    ELSE IF ~out.success
         THEN (IF out.error # Undefined THEN out.error ELSE "Unknown error")
    ELSE IF ~out.hasStats THEN "Cannot read properties of undefined"
    ELSE "ok"

\* new Date().toISOString()
Now == "createdAt"

\* forge.mjs 183-200: the row data the close handler builds from one result
ResultData(j, branchResult) ==
    [jobId |-> j,
     signalTicker |-> Field(branchResult, "ticker"),
     investTicker |-> Field(branchResult, "ticker"),
     indicator |-> Field(branchResult, "indicator"),
     period |-> Field(branchResult, "period"),
     comparator |-> Field(branchResult, "comparator"),
     threshold |-> Field(branchResult, "threshold"),
     isTim |-> Field(branchResult, "TIM"),
     isTimar |-> Field(branchResult, "TIMAR"),
     isMaxdd |-> Field(branchResult, "MaxDD"),
     isCagr |-> Field(branchResult, "CAGR"),
     isTrades |-> Field(branchResult, "Trades"),
     isAvgHold |-> Field(branchResult, "AvgHold"),
     isSharpe |-> Field(branchResult, "Sharpe"),
     isDd3 |-> Field(branchResult, "DD3"),
     isDd50 |-> Field(branchResult, "DD50"),
     isDd95 |-> Field(branchResult, "DD95"),
     isTimar3 |-> Field(branchResult, "TIMAR3")]

\* { id: nextId.results++, ...data, createdAt } (part_016 106, 114-118)
NewRow(id, data) ==
    [f \in {"id", "createdAt"} \cup DOMAIN data |->
        IF f = "createdAt" THEN Now
        ELSE IF f \in DOMAIN data THEN data[f]
        ELSE id]

\* part_016 113-118: the rows of a batch, ids in the order of the data
BatchRows(resultsData, firstId) ==
    [i \in 1..Len(resultsData) |-> NewRow(firstId + i - 1, resultsData[i])]

\* Appended with the new rows put in front
AppendedInFront(rows) == rows \o results

\* db.results.push(...results) (part_016 107, 119)
Appended(rows) == results \o rows

\* forge.mjs 183-204: the rows the close handler stores for the engine's results
ResultRows(j, branchResults, firstId) ==
    BatchRows([i \in 1..Len(branchResults) |-> ResultData(j, branchResults[i])], firstId)

\* FailedExitUpdate with the status of the success path
FailedExitUpdateAsCompleted(code) ==
    [status |-> "completed", error |-> "Python process exited with code " \o code]

\* The update the close handler writes for a failed exit (forge.mjs 142-146)
FailedExitUpdate(code) ==
    [status |-> "failed", error |-> "Python process exited with code " \o code]

\* FailedParseUpdate without the error field
FailedParseUpdateNoError(message) == [status |-> "failed"]

\* The update the close handler writes when the result is unusable (forge.mjs 239-243)
FailedParseUpdate(message) ==
    [status |-> "failed", error |-> "Failed to parse result: " \o message]

\* CompletedUpdate with the job's total stored as its passing count
CompletedUpdatePassingAsTotal(totalBranches, passingCount) ==
    [status |-> "completed", completedBranches |-> totalBranches,
     passingBranches |-> totalBranches]

\* The update the close handler writes on success (forge.mjs 209-214)
CompletedUpdate(totalBranches, passingCount) ==
    [status |-> "completed", completedBranches |-> totalBranches,
     passingBranches |-> passingCount]

\* The engine process ends and python.on('close') runs up to its first await
\* (forge.mjs 137-146, 166-214, 235-243).
CloseBegin(j, exit) ==
    /\ proc[j].state = "running"
    /\ closePc[j] = "idle"
    /\ exit \in EngineExits(JobOf(j).config, proc[j])
    /\ proc' = [proc EXCEPT ![j].state = "closed", ![j].code = exit.code, ![j].out = exit.out]
    /\ IF exit.code # "0"
       THEN /\ jobs' = UpdateJob(j, FailedExitUpdate(exit.code))
            /\ closePc' = [closePc EXCEPT ![j] = "failedExit"]
            /\ UNCHANGED <<results, nextResultId>>
       ELSE IF ParseOutcome(exit.out) # "ok"
       THEN /\ jobs' = UpdateJob(j, FailedParseUpdate(ParseOutcome(exit.out)))
            /\ closePc' = [closePc EXCEPT ![j] = "failedParse"]
            /\ UNCHANGED <<results, nextResultId>>
       ELSE IF Field(exit.out, "results") # Undefined /\ Len(exit.out.results) > 0
       THEN /\ results' = Appended(ResultRows(j, exit.out.results, nextResultId))
            /\ nextResultId' = nextResultId + Len(exit.out.results)
            /\ closePc' = [closePc EXCEPT ![j] = "saved"]
            /\ UNCHANGED jobs
       ELSE /\ jobs' = UpdateJob(j, CompletedUpdate(JobOf(j).totalBranches,
                                                    Field(exit.out, "passingCount")))
            /\ closePc' = [closePc EXCEPT ![j] = "completed"]
            /\ UNCHANGED <<results, nextResultId>>
    /\ UNCHANGED <<nextJobId, activeJobs, sseClients, startWait, cancelWait,
                   clientPc, clientJob, clientFound, inbox, ended, cancelAccepted,
                   estimate,
                   dbVars, libVars, uiVars>>
    /\ SaveBegun(<<"close", j>>)

\* The close handler after batchCreateResults returned (forge.mjs 208-214)
CloseSaved(j) ==
    /\ closePc[j] = "saved"
    /\ jobs' = UpdateJob(j, CompletedUpdate(JobOf(j).totalBranches,
                                          Field(proc[j].out, "passingCount")))
    /\ closePc' = [closePc EXCEPT ![j] = "completed"]
    /\ UNCHANGED <<nextJobId, results, nextResultId, activeJobs, sseClients, proc,
                   startWait, cancelWait, clientPc, clientJob, clientFound, inbox,
                   ended, cancelAccepted, estimate,
                   dbVars, libVars, uiVars>>
    /\ SaveEndedAndBegun(<<"close", j>>)

\* forge.mjs 150-154
FailedMessage(j, code) ==
    [jobId |-> j, status |-> "failed", error |-> "Process failed with code " \o code]

\* forge.mjs 218-225
CompletedMessage(j, totalBranches, passingCount) ==
    [jobId |-> j, status |-> "completed", totalBranches |-> totalBranches,
     completedBranches |-> totalBranches, passingBranches |-> passingCount,
     stats |-> "stats"]

\* The close handler after its updateJob returned: notify and forget the job
\* (forge.mjs 148-163, 216-233, 245-246). A parse failure notifies nobody.
CloseFinish(j) ==
    /\ closePc[j] \in {"failedExit", "failedParse", "completed"}
    /\ closePc' = [closePc EXCEPT ![j] = "done"]
    /\ LET msg == IF closePc[j] = "failedExit" THEN FailedMessage(j, proc[j].code)
                  ELSE CompletedMessage(j, JobOf(j).totalBranches,
                                        Field(proc[j].out, "passingCount"))
       IN  IF closePc[j] = "failedParse"
           THEN UNCHANGED <<inbox, ended>>
           ELSE /\ inbox' = Written(inbox, sseClients[j], msg)
                /\ ended' = Ended(sseClients[j])
    /\ activeJobs' = activeJobs \ {j}
    /\ sseClients' = [sseClients EXCEPT ![j] = <<>>]
    /\ UNCHANGED <<jobs, nextJobId, results, nextResultId, proc, startWait, cancelWait,
                   clientPc, clientJob, clientFound, cancelAccepted, estimate,
                   dbVars, libVars, uiVars>>
    /\ SaveEnded(<<"close", j>>)

\* POST /cancel/:jobId up to the await of updateJob (forge.mjs 294-306), or
\* the whole handler when the job is not active (forge.mjs 299, 324)
\* A handler that would kill and update without looking the job up in activeJobs
CancelHandlerAnyJob(j) ==
    /\ j \notin cancelWait
    /\ proc' = [proc EXCEPT ![j].killed = TRUE, ![j].passedAtKill = Len(proc[j].passed)]
    /\ jobs' = UpdateJob(j, [status |-> "cancelled"])
    /\ cancelWait' = cancelWait \cup {j}
    /\ UNCHANGED <<nextJobId, results, nextResultId, activeJobs, sseClients, startWait,
                   closePc, clientPc, clientJob, clientFound, inbox, ended, estimate,
                   cancelAccepted, dbVars>>
    /\ SaveBegun(<<"cancel", j>>)

CancelHandlerBody(j) ==
    /\ j \notin cancelWait
    /\ IF j \in activeJobs
       THEN /\ proc' = [proc EXCEPT ![j].killed = TRUE,
                                    ![j].passedAtKill = Len(proc[j].passed)]
            /\ jobs' = UpdateJob(j, [status |-> "cancelled"])
            /\ cancelWait' = cancelWait \cup {j}
            /\ cancelAccepted' = IF JobOf(j).status = "running"
                                 THEN cancelAccepted \cup {j} ELSE cancelAccepted
       ELSE UNCHANGED <<proc, jobs, cancelWait, cancelAccepted>>
    /\ UNCHANGED <<nextJobId, results, nextResultId, activeJobs, sseClients, startWait,
                   closePc, clientPc, clientJob, clientFound, inbox, ended, estimate,
                   dbVars>>
    /\ IF j \in activeJobs
       THEN SaveBegun(<<"cancel", j>>)
       ELSE UNCHANGED diskVars

\* The handler where its answers are not recorded
CancelHandler(j) == UNCHANGED libVars /\ CancelHandlerBody(j)

\* POST /cancel/:jobId from a client other than the dashboard
Cancel(j) == CancelHandler(j) /\ UNCHANGED uiVars

\* ActiveAfterCancel without the delete
ActiveAfterCancelKept(j) == activeJobs

\* activeJobs.delete(jobId) of the cancel handler (forge.mjs 308)
ActiveAfterCancel(j) == activeJobs \ {j}

\* forge.mjs 312-315
CancelledMessage(j) == [jobId |-> j, status |-> "cancelled"]

\* POST /cancel/:jobId after updateJob returned (forge.mjs 308-324)
CancelFinish(j) ==
    /\ j \in cancelWait
    /\ cancelWait' = cancelWait \ {j}
    /\ activeJobs' = ActiveAfterCancel(j)
    /\ inbox' = Written(inbox, sseClients[j], CancelledMessage(j))
    /\ ended' = Ended(sseClients[j])
    /\ sseClients' = [sseClients EXCEPT ![j] = <<>>]
    /\ UNCHANGED <<jobs, nextJobId, results, nextResultId, proc, startWait, closePc,
                   clientPc, clientJob, clientFound, cancelAccepted, estimate,
                   dbVars, libVars, uiVars>>
    /\ SaveEnded(<<"cancel", j>>)

\* GET /stream/:jobId up to the await of getJob (forge.mjs 257-271)
Stream(c, j) ==
    /\ clientPc[c] = "idle"
    /\ clientPc' = [clientPc EXCEPT ![c] = "joining"]
    /\ clientJob' = [clientJob EXCEPT ![c] = j]
    /\ sseClients' = [sseClients EXCEPT ![j] = Append(sseClients[j], c)]
    /\ clientFound' = [clientFound EXCEPT ![c] = FindJob(j) # 0]
    /\ UNCHANGED <<jobs, nextJobId, results, nextResultId, activeJobs, proc, startWait,
                   cancelWait, closePc, inbox, ended, cancelAccepted, estimate,
                   dbVars, libVars, diskVars, uiVars>>

\* forge.mjs 273-279: the job record as it is when the message is built
InitialMessage(j) ==
    [jobId |-> j, status |-> JobOf(j).status, totalBranches |-> JobOf(j).totalBranches,
     completedBranches |-> JobOf(j).completedBranches,
     passingBranches |-> JobOf(j).passingBranches]

\* GET /stream/:jobId after getJob returned (forge.mjs 272-290)
StreamInitial(c) ==
    /\ clientPc[c] = "joining"
    /\ clientPc' = [clientPc EXCEPT ![c] = "open"]
    /\ inbox' = IF clientFound[c] /\ ~ended[c]
                THEN [inbox EXCEPT ![c] = Append(inbox[c], InitialMessage(clientJob[c]))]
                ELSE inbox
    /\ UNCHANGED <<jobs, nextJobId, results, nextResultId, activeJobs, sseClients, proc,
                   startWait, cancelWait, closePc, clientJob, clientFound, ended,
                   cancelAccepted, estimate,
                   dbVars, libVars, diskVars, uiVars>>

\* clients.splice(index, 1)
Without(list, c) == SelectSeq(list, LAMBDA x : x # c)

\* req.on('close'): the client goes away (forge.mjs 284-290)
Disconnect(c) ==
    /\ clientPc[c] = "open"
    /\ clientPc' = [clientPc EXCEPT ![c] = "gone"]
    /\ sseClients' = [sseClients EXCEPT ![clientJob[c]] = Without(sseClients[clientJob[c]], c)]
    /\ UNCHANGED <<jobs, nextJobId, results, nextResultId, activeJobs, proc, startWait,
                   cancelWait, closePc, clientJob, clientFound, inbox, ended,
                   cancelAccepted, estimate,
                   dbVars, libVars, diskVars, uiVars>>

----------------------------------------------------------------------------
\* The configurations of the lifecycle model: a valid one and one whose
\* periodMin exceeds its periodMax, over each ticker list.
Configs ==
    {cfg \in AllConfigs :
        /\ cfg.indicator = "RSI"
        /\ cfg.comparator = "LT"
        /\ cfg.thresholdMin = 0 /\ cfg.thresholdMax = 0 /\ cfg.thresholdStep = 1
        /\ cfg.periodMax = 1
        /\ cfg.periodMin \in {1, MaxPeriod}}

StartRequest == \E cfg \in Configs : Len(jobs) < MaxJobs /\ StartCreate(cfg)

EngineProgress ==
    \E j \in JobIds, S \in SUBSET (1..1), elapsed \in BOOLEAN :
        ProgressLine(j, S, MaxMetric, elapsed)

EngineClose ==
    \E j \in JobIds :
        proc[j].state = "running" /\
        \E exit \in EngineExits(JobOf(j).config, proc[j]) : CloseBegin(j, exit)

Next ==
    \/ StartRequest
    \/ \E j \in JobIds : StartSpawn(j)
    \/ EngineProgress
    \/ \E j \in JobIds, k \in 1..MaxTickers : ProgressSaved(j, k)
    \/ EngineClose
    \/ \E j \in JobIds : CloseSaved(j)
    \/ \E j \in JobIds : CloseFinish(j)
    \/ \E j \in 1..MaxJobs : Cancel(j)
    \/ \E j \in JobIds : CancelFinish(j)
    \/ \E c \in 1..MaxClients, j \in 1..MaxJobs : Stream(c, j)
    \/ \E c \in Clients : StreamInitial(c)
    \/ \E c \in 1..MaxClients : Disconnect(c)

Spec == Init /\ [][Next]_vars

\* The awaits of a handler resolve: the event loop runs every continuation.
\* Nothing obliges the engine process to print or to exit.
FairSpec ==
    /\ Spec
    /\ \A j \in JobIds :
        /\ WF_vars(StartSpawn(j))
        /\ WF_vars(CloseSaved(j))
        /\ WF_vars(CloseFinish(j))
        /\ WF_vars(CancelFinish(j))
    /\ \A c \in Clients : WF_vars(StreamInitial(c))

\* The dashboard's use of the two routes: it estimates a config, then starts it.
EstimateConfig == \E cfg \in AllConfigs : ~estimate.asked /\ Estimate(cfg)

StartEstimated == estimate.asked /\ jobs = <<>> /\ StartCreate(estimate.config)

NextCalc == EstimateConfig \/ StartEstimated

SpecCalc == Init /\ [][NextCalc]_vars

----------------------------------------------------------------------------
(* The database functions called one at a time, each awaited *)

MaxRows == 3
MaxMounts == 2
MaxPolls == 1

\* The branch of the rows handed to the database directly
SampleBranch ==
    [ticker |-> "SPY", indicator |-> "RSI", period |-> 1, comparator |-> "LT",
     threshold |-> 0]

\* Row data as the close handler builds it (forge.mjs 183-202)
RowData == {ResultData(j, EngineResult(SampleBranch, t)) : j \in JobIds, t \in 1..MaxMetric}

\* The batches handed to batchCreateResults
Batches == {<<d>> : d \in RowData} \cup {<<d, e>> : d \in RowData, e \in RowData}

\* a[sortBy] || 0 (part_016 130-131)
SortValue(row, sortBy) == IF sortBy \in DOMAIN row THEN row[sortBy] ELSE 0

\* The comparator of results.sort (part_016 129-133): positive when a goes after b
Compare(a, b, sortBy, order) ==
    IF order = "desc"
    THEN SortValue(b, sortBy) - SortValue(a, sortBy)
    ELSE SortValue(a, sortBy) - SortValue(b, sortBy)

\* Array.prototype.sort, which is stable: each row goes before the first row
\* already placed that the comparator puts after it
RECURSIVE SortRows(_, _, _, _)
SortRows(rows, n, sortBy, order) ==
    IF n = 0 THEN <<>>
    ELSE LET sorted == SortRows(rows, n - 1, sortBy, order)
             after == {i \in 1..Len(sorted) : Compare(sorted[i], rows[n], sortBy, order) > 0}
             pos == IF after = {} THEN Len(sorted) + 1
                    ELSE CHOOSE i \in after : \A k \in after : i <= k
         IN  SubSeq(sorted, 1, pos - 1) \o <<rows[n]>> \o SubSeq(sorted, pos, Len(sorted))

\* jsonDb.getResults (part_016 124-142). An argument left out is Undefined
\* (sortBy, order) or the empty tuple (limit); limit is <<n>> when given.
GetResults(jobId, sortBy, order, limit) ==
    LET by == IF sortBy = Undefined THEN "is_timar" ELSE sortBy
        dir == IF order = Undefined THEN "desc" ELSE order
        filtered == SelectSeq(results, LAMBDA r : r.jobId = jobId)
        sorted == SortRows(filtered, Len(filtered), by, dir)
    IN  IF limit # <<>> /\ limit[1] # 0
        THEN SubSeq(sorted, 1, IF limit[1] < Len(sorted) THEN limit[1] ELSE Len(sorted))
        ELSE sorted

\* An awaited call returns after its write: with one caller the file then
\* holds the tables
Saved == disk' = Memory' /\ UNCHANGED saves

\* What a direct call leaves alone besides the tables it names
CallFrame ==
    UNCHANGED <<activeJobs, sseClients, proc, startWait, cancelWait, closePc, clientPc,
                clientJob, clientFound, inbox, ended, cancelAccepted, estimate, uiVars,
                   libVars>>

\* jsonDb.createJob (part_016 80-85)
CallCreateJob(cfg) ==
    /\ jobs = <<>>
    /\ jobs' = Append(jobs, NewJob(nextJobId, cfg))
    /\ nextJobId' = nextJobId + 1
    /\ call' = [op |-> "createJob"]
    /\ UNCHANGED <<results, nextResultId, tickerRegistry, lastSyncState>>
    /\ CallFrame
    /\ Saved

\* jsonDb.updateJob (part_016 87-94)
CallUpdateJob(id, updates) ==
    /\ FindJob(id) # 0
    /\ jobs' = UpdateJob(id, updates)
    /\ call' = [op |-> "updateJob"]
    /\ UNCHANGED <<nextJobId, results, nextResultId, tickerRegistry, lastSyncState>>
    /\ CallFrame
    /\ Saved

\* jsonDb.createResult (part_016 105-110)
CallCreateResult(data) ==
    /\ Len(results) < MaxRows
    /\ results' = Appended(<<NewRow(nextResultId, data)>>)
    /\ nextResultId' = nextResultId + 1
    /\ call' = [op |-> "createResult", data |-> <<data>>]
    /\ UNCHANGED <<jobs, nextJobId, tickerRegistry, lastSyncState>>
    /\ CallFrame
    /\ Saved

\* jsonDb.batchCreateResults (part_016 112-122)
CallBatchCreateResults(resultsData) ==
    /\ Len(results) + Len(resultsData) <= MaxRows
    /\ results' = Appended(BatchRows(resultsData, nextResultId))
    /\ nextResultId' = nextResultId + Len(resultsData)
    /\ call' = [op |-> "batchCreateResults", data |-> resultsData]
    /\ UNCHANGED <<jobs, nextJobId, tickerRegistry, lastSyncState>>
    /\ CallFrame
    /\ Saved

\* jsonDb.getResults (part_016 124-142): nothing is written
CallGetResults(jobId, sortBy, order, limit) ==
    /\ call' = [op |-> "getResults", jobId |-> jobId, sortBy |-> sortBy, order |-> order,
                limit |-> limit, rows |-> GetResults(jobId, sortBy, order, limit)]
    /\ UNCHANGED <<jobs, nextJobId, results, nextResultId, tickerRegistry, lastSyncState,
                   diskVars>>
    /\ CallFrame

\* jsonDb.syncTickerRegistry (part_016 145-153): the registry is replaced
CallSyncTickerRegistry(tickers) ==
    /\ tickerRegistry' = [i \in 1..Len(tickers) |-> [ticker |-> tickers[i], syncedAt |-> Now]]
    /\ call' = [op |-> "syncTickerRegistry"]
    /\ UNCHANGED <<jobs, nextJobId, results, nextResultId, lastSyncState>>
    /\ CallFrame
    /\ Saved

\* jsonDb.setLastSyncState (part_016 217-223)
CallSetLastSyncState(source, syncData) ==
    /\ lastSyncState' = [lastSyncState EXCEPT ![source] = syncData]
    /\ call' = [op |-> "setLastSyncState"]
    /\ UNCHANGED <<jobs, nextJobId, results, nextResultId, tickerRegistry>>
    /\ CallFrame
    /\ Saved

\* The job of the direct calls: a valid config with one ticker
SampleConfig == CHOOSE cfg \in Configs : ValidConfig(cfg) /\ Len(cfg.tickers) = 1

NextDb ==
    \/ CallCreateJob(SampleConfig)
    \/ \E id \in JobIds, st \in {"completed", "failed"} : CallUpdateJob(id, [status |-> st])
    \/ \E data \in RowData : CallCreateResult(data)
    \/ \E resultsData \in Batches : CallBatchCreateResults(resultsData)
    \/ \E jobId \in JobIds, sortBy \in {Undefined, "isTimar"},
          order \in {Undefined, "desc", "asc"}, limit \in {<<>>} \cup {<<n>> : n \in 1..2} :
            CallGetResults(jobId, sortBy, order, limit)
    \/ CallSyncTickerRegistry(SampleConfig.tickers)
    \/ CallSetLastSyncState("tiingo", Now)

SpecDb == Init /\ [][NextDb]_vars

----------------------------------------------------------------------------
(* Properties *)

Terminal == {"completed", "cancelled", "failed"}

JobIndexes == 1..Len(jobs)

\* C1: once a job's stored status is completed, cancelled or failed, no
\* handler writes a different status over it.
TerminalStatusIsFinal ==
    [][\A i \in JobIndexes :
          jobs[i].status \in Terminal => jobs'[i].status = jobs[i].status]_vars

\* C2: a job that was running when its cancel was handled is cancelled once
\* the cancel handler and the close handler of its engine have both finished.
CancelledAfterCancelAndClose ==
    \A j \in cancelAccepted :
        (j \notin cancelWait /\ closePc[j] = "done") => JobOf(j).status = "cancelled"

\* The branch count the specification gives (section 8, invariant 1)
SpecTotalBranches(cfg) ==
    LET windows == IF cfg.indicator \in WindowlessFamilies THEN 1
                   ELSE cfg.periodMax - cfg.periodMin + 1
        comparators == IF cfg.comparator = "BOTH" THEN 2 ELSE 1
        thresholds == FloorDiv(cfg.thresholdMax - cfg.thresholdMin, cfg.thresholdStep) + 1
    IN  Len(cfg.tickers) * windows * comparators * thresholds

\* C3: for every valid config, the totalBranches /estimate answers and /start
\* records is |tickers| x windows x comparators x thresholds, with one window
\* for a windowless family.
TotalBranchesMatchesSpec ==
    /\ (estimate.asked /\ ValidConfig(estimate.config))
          => estimate.totalBranches = SpecTotalBranches(estimate.config)
    /\ \A i \in JobIndexes :
          ValidConfig(jobs[i].config)
            => jobs[i].totalBranches = SpecTotalBranches(jobs[i].config)

\* C4: a completed job has completedBranches = totalBranches and
\* passingBranches <= completedBranches.
CompletedMeansAllBranchesDone ==
    \A i \in JobIndexes :
        jobs[i].status = "completed" =>
            /\ jobs[i].completedBranches = jobs[i].totalBranches
            /\ jobs[i].passingBranches <= jobs[i].completedBranches

\* An event carries the three counters
HasCounters(ev) ==
    {"totalBranches", "completedBranches", "passingBranches"} \subseteq DOMAIN ev

\* The events of every stream carry the counters, with the same total and
\* counters that never decrease from one event to the next
EventsMonotonic(box) ==
    \A c \in Clients : \A n \in 1..Len(box[c]) :
        /\ HasCounters(box[c][n])
        /\ n > 1 =>
            /\ HasCounters(box[c][n - 1])
            /\ box[c][n].totalBranches = box[c][n - 1].totalBranches
            /\ box[c][n].completedBranches >= box[c][n - 1].completedBranches
            /\ box[c][n].passingBranches >= box[c][n - 1].passingBranches

\* C5: the values stored on a job and the events sent to its subscribers keep
\* totalBranches constant and never decrease completedBranches or
\* passingBranches, up to and including the terminal event.
ProgressIsMonotonic ==
    [][/\ \A i \in JobIndexes :
            /\ jobs'[i].totalBranches = jobs[i].totalBranches
            /\ jobs'[i].completedBranches >= jobs[i].completedBranches
            /\ jobs'[i].passingBranches >= jobs[i].passingBranches
       /\ EventsMonotonic(inbox')]_vars

\* C6: a config that violates a configuration constraint gets no running job
\* record and no engine process.
InvalidConfigIsRejected ==
    \A i \in JobIndexes :
        ~ValidConfig(jobs[i].config) =>
            /\ jobs[i].status # "running"
            /\ proc[jobs[i].id].state = "none"

ExitedWithSuccess(p) ==
    /\ p.state = "closed"
    /\ p.code = "0"
    /\ p.out.kind = "json"
    /\ p.out.success

\* C8: a job becomes completed only when its engine exited with code 0 and
\* the last stdout line parsed to a result with success = true; when the
\* close handler sees a non-zero code, an unparsable line or a reported
\* failure, it stores failed.
CompletedOnlyOnSuccess ==
    [][\A i \in JobIndexes :
          LET j == jobs[i].id IN
          /\ (jobs'[i].status = "completed" /\ jobs[i].status # "completed")
                => ExitedWithSuccess(proc'[j])
          /\ (closePc[j] = "idle" /\ closePc'[j] # "idle" /\ ~ExitedWithSuccess(proc'[j]))
                => jobs'[i].status = "failed"]_vars

\* A job was completed by the close handler of a clean exit
JobCompletedAfterCleanExit ==
    \E i \in JobIndexes :
        /\ jobs[i].status = "completed"
        /\ closePc[jobs[i].id] = "done"
        /\ ExitedWithSuccess(proc[jobs[i].id])

\* C9: a failed job carries a non-empty error string.
FailedCarriesError ==
    \A i \in JobIndexes :
        jobs[i].status = "failed" =>
            /\ jobs[i].error # Undefined
            /\ Len(jobs[i].error) > 0

\* A job failed because its result could not be used
JobFailedOnParse ==
    \E i \in JobIndexes :
        /\ jobs[i].status = "failed"
        /\ closePc[jobs[i].id] = "done"
        /\ proc[jobs[i].id].code = "0"

\* C10: once the cancel of a running job is accepted, the job eventually has
\* a terminal status and is out of the active-job table, whether or not the
\* engine process ever exits.
CancelConverges ==
    \A j \in JobIds :
        (j \in cancelAccepted) ~>
            (FindJob(j) # 0 /\ JobOf(j).status \in Terminal /\ j \notin activeJobs)

\* A cancelled job left the active-job table while its engine is still alive
CancelledWhileEngineAlive ==
    \E j \in cancelAccepted :
        /\ j \notin activeJobs
        /\ j \notin cancelWait
        /\ JobOf(j).status \in Terminal
        /\ proc[j].state = "running"

----------------------------------------------------------------------------
(* Result rows *)

\* The fields of a stored BranchResult (part_012 155-206)
BranchFields == {"signalTicker", "investTicker", "indicator", "period", "comparator",
                 "threshold"}

IsMetrics == {"isTim", "isTimar", "isMaxdd", "isCagr", "isTrades", "isAvgHold",
              "isDd3", "isTimar3", "isDd50", "isDd95"}

OosMetrics == {"oosTim", "oosTimar", "oosMaxdd", "oosCagr", "oosTrades", "oosAvgHold",
               "oosDd3", "oosTimar3", "oosDd50", "oosDd95"}

\* The indexes of the rows stored with job id j
RowsOf(j) == {r \in 1..Len(results) : Field(results[r], "jobId") = j}

\* The row carries every field of the set
Carries(row, fields) == fields \subseteq DOMAIN row

\* A row that is a whole BranchResult: the branch, both metric tuples, the
\* job's id and the creation timestamp
CompleteRow(row) ==
    /\ Carries(row, {"jobId", "createdAt"} \cup BranchFields)
    /\ row.investTicker = row.signalTicker
    /\ Carries(row, IsMetrics)
    /\ Carries(row, OosMetrics)

\* Some stored row holds the data the close handler builds for the result
Stored(j, branchResult) ==
    \E r \in 1..Len(results) :
        \A f \in DOMAIN ResultData(j, branchResult) :
            Field(results[r], f) = ResultData(j, branchResult)[f]

\* C11: once the cancel of a running job and the close handler of its engine
\* have finished, every passing result the engine had produced when the cancel
\* was handled is stored, and every row stored for the job is a whole
\* BranchResult.
CancelFlushesResults ==
    \A j \in cancelAccepted :
        (j \notin cancelWait /\ closePc[j] = "done") =>
            /\ \A n \in 1..proc[j].passedAtKill : Stored(j, proc[j].passed[n])
            /\ \A r \in RowsOf(j) : CompleteRow(results[r])

\* C13: a completed job has as many stored rows with its id as its
\* passingBranches says.
CompletedRowsMatchPassing ==
    \A i \in JobIndexes :
        jobs[i].status = "completed" =>
            Cardinality(RowsOf(jobs[i].id)) = jobs[i].passingBranches

\* A completed job has at least one stored row
CompletedJobWithRows ==
    \E i \in JobIndexes :
        /\ jobs[i].status = "completed"
        /\ closePc[jobs[i].id] = "done"
        /\ RowsOf(jobs[i].id) # {}

\* C14: every stored row carries the job's id, a creation timestamp, the
\* branch fields with investTicker = signalTicker, and both the in-sample and
\* the out-of-sample metrics.
StoredRowsAreComplete ==
    \A r \in 1..Len(results) :
        /\ FindJob(Field(results[r], "jobId")) # 0
        /\ CompleteRow(results[r])

\* C12: every step of the database leaves the rows already stored as they
\* are and where they are; the rows it adds come after them, each with an id
\* no stored row has, and the rows of a batch in the order of the batch.
ResultsAppendOnly ==
    [][LET old == Len(results)
           new == Len(results')
       IN  /\ new >= old
           /\ SubSeq(results', 1, old) = results
           /\ \A r \in (old + 1)..new :
                 \A q \in 1..new : q # r => results'[q].id # results'[r].id
           /\ (new > old /\ call'.op \in {"createResult", "batchCreateResults"}) =>
                 /\ new - old = Len(call'.data)
                 /\ \A i \in 1..Len(call'.data) :
                       \A f \in DOMAIN call'.data[i] :
                           results'[old + i][f] = call'.data[i][f]]_vars

\* A batch of two different rows was appended after a stored row, and other
\* tables were written since the first row was stored
BatchAppendedAfterRows ==
    /\ call.op = "batchCreateResults"
    /\ Len(call.data) = 2
    /\ call.data[1] # call.data[2]
    /\ Len(results) = MaxRows
    /\ tickerRegistry # <<>>
    /\ jobs # <<>>

\* C15: getResults(jobId, sortBy, order, limit) answers only rows of that job,
\* ordered by the metric asked for (by isTimar when none is given) in the
\* direction asked for (descending when none is given), and at most limit
\* rows when a limit is given.
GetResultsAnswersTheQuery ==
    call.op = "getResults" =>
        LET rows == call.rows
            by == IF call.sortBy = Undefined THEN "isTimar" ELSE call.sortBy
            dir == IF call.order = Undefined THEN "desc" ELSE call.order
        IN  /\ \A i \in 1..Len(rows) : rows[i].jobId = call.jobId
            /\ \A i \in 1..Len(rows) : \A k \in (i + 1)..Len(rows) :
                  IF dir = "desc" THEN rows[i][by] >= rows[k][by]
                  ELSE rows[i][by] <= rows[k][by]
            /\ call.limit # <<>> => Len(rows) <= call.limit[1]

\* C16: when no write of db.json is in flight, the file holds the tables as
\* they are in memory.
DiskMatchesMemory == saves = {} => disk = Memory

\* The client is in the list
Subscribed(list, c) == \E i \in 1..Len(list) : list[i] = c

\* The client was sent an event saying the job is running: it subscribed
\* before the job reached a terminal status
ToldRunning(c) == \E n \in 1..Len(inbox[c]) : inbox[c][n].status = "running"

\* C17: a client that subscribed to a job before it reached a terminal status
\* and is still subscribed when the server drops the job's subscribers has by
\* then been sent an event with a terminal status as its last event, and its
\* stream is ended.
SubscribersLearnTerminal ==
    [][\A j \in JobIds, c \in Clients :
          (/\ Subscribed(sseClients[j], c)
           /\ ToldRunning(c)
           /\ ~Subscribed(sseClients'[j], c)
           /\ clientPc'[c] # "gone")
          => /\ ended'[c]
             /\ inbox'[c][Len(inbox'[c])].status \in Terminal]_vars

----------------------------------------------------------------------------
(* The browser: ForgeDashboard with useForgeJob and useForgeStream *)

\* useState(null), useState(false), useState(null) of useForgeJob (null as 0)
NoJob == [jobId |-> 0, running |-> FALSE, startTime |-> 0]

\* useState(null) of useForgeStream
NullStatus == [status |-> "null"]

\* useForgeStream before its effect ran with a job: no event source, no timer.
\* jobId and source are those of the effect's last run, open the event sources
\* not closed yet, timers the sources whose poll interval is set, seen the
\* number of the source's events handed to onmessage.
NoStream ==
    [status |-> NullStatus, jobId |-> 0, source |-> 0, open |-> {}, timers |-> {},
     seen |-> 0]

\* localStorage without the item forge_active_job
NoItem == [stored |-> FALSE]

\* Date.now() of startJob: a clock that every finished start advances
DateNow == 1 + Cardinality({f \in fetches : f.kind = "start" /\ f.state = "done"})

\* restoreActiveJob and the mount effect (useForgeJobPersistence.ts 84-106,
\* useForgeJob.ts 45-53)
Restored ==
    IF localStorage.stored
    THEN [jobId |-> localStorage.jobId, running |-> TRUE,
          startTime |-> localStorage.startTime]
    ELSE NoJob

\* saveActiveJob (useForgeJobPersistence.ts 40-47)
SaveActiveJob(jobId, startTime) ==
    [stored |-> TRUE, jobId |-> jobId, startTime |-> startTime]

\* What the dashboard's effect depends on (ForgeDashboard.tsx 103)
DashboardDeps == [status |-> forgeStream.status, running |-> forgeJob.running]

\* An effect of the last render has not run yet
StreamEffectPending == instance.mounted /\ forgeStream.jobId # forgeJob.jobId
DashboardEffectPending == instance.mounted /\ dashboard # DashboardDeps

\* React runs the effects of a render right after it, before the next event
EffectsRan == ~StreamEffectPending /\ ~DashboardEffectPending

Rendered == instance.mounted /\ EffectsRan

\* The Forge tab is opened: ForgeDashboard mounts, its first render's effects
\* run (part_002 Tabs; useForgeJob.ts 45-53; part_008 36-40)
Mount ==
    /\ ~instance.mounted
    /\ instance.n < MaxMounts
    /\ instance' = [n |-> instance.n + 1, mounted |-> TRUE]
    /\ forgeJob' = Restored
    /\ forgeStream' = NoStream
    /\ dashboard' = [status |-> NullStatus, running |-> FALSE]
    /\ UNCHANGED <<localStorage, fetches>>
    /\ UNCHANGED <<jobs, nextJobId, results, nextResultId, activeJobs, sseClients, proc,
                   startWait, cancelWait, closePc, clientPc, clientJob, clientFound,
                   inbox, ended, cancelAccepted, estimate, dbVars, libVars, diskVars>>

\* The cleanup of useForgeStream's effect (part_008 106-111)
Cleanup(stream) ==
    [stream EXCEPT !.open = stream.open \ {stream.source},
                   !.timers = stream.timers \ {stream.source}]

\* Another tab is opened: ForgeDashboard unmounts, its state is dropped
Unmount ==
    /\ instance.mounted
    /\ instance' = [instance EXCEPT !.mounted = FALSE]
    /\ forgeStream' = [Cleanup(forgeStream) EXCEPT !.status = NullStatus, !.jobId = 0,
                                                   !.seen = 0]
    /\ forgeJob' = NoJob
    /\ dashboard' = [status |-> NullStatus, running |-> FALSE]
    /\ UNCHANGED <<localStorage, fetches>>
    /\ UNCHANGED <<jobs, nextJobId, results, nextResultId, activeJobs, sseClients, proc,
                   startWait, cancelWait, closePc, clientPc, clientJob, clientFound,
                   inbox, ended, cancelAccepted, estimate, dbVars, libVars, diskVars>>

\* The event sources the browser has created
Sources == {f \in fetches : f.kind = "stream"}

\* useForgeStream's effect after jobId changed (part_008 35-44, 106-111):
\* the cleanup of the last run, then a new EventSource for the job. The
\* status is reset only when there is no job.
StreamEffect ==
    /\ StreamEffectPending
    /\ IF forgeJob.jobId = 0
       THEN /\ forgeStream' = [Cleanup(forgeStream) EXCEPT !.status = NullStatus,
                                                          !.jobId = 0, !.seen = 0]
            /\ UNCHANGED fetches
       ELSE /\ Cardinality(Sources) < MaxSources
            /\ LET c == Cardinality(Sources) + 1
               IN  /\ forgeStream' = [Cleanup(forgeStream) EXCEPT
                                         !.jobId = forgeJob.jobId, !.source = c,
                                         !.open = Cleanup(forgeStream).open \cup {c},
                                         !.seen = 0]
                   /\ fetches' = fetches \cup
                        {[kind |-> "stream", source |-> c, jobId |-> forgeJob.jobId]}
    /\ UNCHANGED <<instance, forgeJob, localStorage, dashboard>>
    /\ UNCHANGED <<jobs, nextJobId, results, nextResultId, activeJobs, sseClients, proc,
                   startWait, cancelWait, closePc, clientPc, clientJob, clientFound,
                   inbox, ended, cancelAccepted, estimate, dbVars, libVars, diskVars>>

\* The request of an EventSource reaches GET /stream/:jobId
StreamRequest == \E f \in Sources : Stream(f.source, f.jobId)

\* The server sees the connection of a closed EventSource go
SourceGone == \E f \in Sources : f.source \notin forgeStream.open /\ Disconnect(f.source)

\* completeJob (useForgeJob.ts 98-101)
CompleteJob ==
    /\ forgeJob' = [forgeJob EXCEPT !.running = FALSE]
    /\ localStorage' = NoItem

\* The effect of ForgeDashboard (ForgeDashboard.tsx 98-103)
DashboardEffect ==
    /\ DashboardEffectPending
    /\ dashboard' = DashboardDeps
    /\ IF forgeStream.status.status \in Terminal /\ forgeJob.running
       THEN CompleteJob
       ELSE UNCHANGED <<forgeJob, localStorage>>
    /\ UNCHANGED <<instance, forgeStream, fetches>>
    /\ UNCHANGED <<jobs, nextJobId, results, nextResultId, activeJobs, sseClients, proc,
                   startWait, cancelWait, closePc, clientPc, clientJob, clientFound,
                   inbox, ended, cancelAccepted, estimate, dbVars, libVars, diskVars>>

\* The requests of startJob, answered or not
Starts == {f \in fetches : f.kind = "start"}

\* The Start button, shown while not running: handleStart calls startJob,
\* which sends POST /start (ForgeDashboard.tsx 105-111, 388-392; useForgeJob.ts
\* 56-59). The server numbers the jobs in the order of the requests.
StartClicked ==
    /\ Rendered
    /\ ~forgeJob.running
    /\ Cardinality(Starts) < MaxStarts
    /\ fetches' = fetches \cup
         {[kind |-> "start", instance |-> instance.n,
           jobId |-> Cardinality(Starts) + 1, state |-> "sent"]}
    /\ UNCHANGED <<instance, forgeJob, localStorage, forgeStream, dashboard>>
    /\ UNCHANGED <<jobs, nextJobId, results, nextResultId, activeJobs, sseClients, proc,
                   startWait, cancelWait, closePc, clientPc, clientJob, clientFound,
                   inbox, ended, cancelAccepted, estimate, dbVars, libVars, diskVars>>

\* The request of startJob reaches POST /start
StartArrives ==
    /\ \E f \in fetches : f.kind = "start" /\ f.jobId = nextJobId
    /\ StartCreate(SampleConfig)

\* startJob after api.forge.start returned (useForgeJob.ts 60-69): the state
\* of the instance that called it, and the item of localStorage
StartReturns(f) ==
    /\ f \in fetches /\ f.kind = "start" /\ f.state = "sent"
    /\ f.jobId < nextJobId /\ f.jobId \notin startWait
    /\ instance.mounted /\ instance.n = f.instance => Rendered
    /\ fetches' = (fetches \ {f}) \cup {[f EXCEPT !.state = "done"]}
    /\ forgeJob' = IF instance.mounted /\ instance.n = f.instance
                   THEN [jobId |-> f.jobId, running |-> TRUE, startTime |-> DateNow]
                   ELSE forgeJob
    /\ localStorage' = SaveActiveJob(f.jobId, DateNow)
    /\ UNCHANGED <<instance, forgeStream, dashboard>>
    /\ UNCHANGED <<jobs, nextJobId, results, nextResultId, activeJobs, sseClients, proc,
                   startWait, cancelWait, closePc, clientPc, clientJob, clientFound,
                   inbox, ended, cancelAccepted, estimate, dbVars, libVars, diskVars>>

\* The Cancel button, shown while running: handleCancel calls cancelJob, which
\* sends POST /cancel/:jobId (ForgeDashboard.tsx 113-119, 405; useForgeJob.ts
\* 78-82)
CancelClicked ==
    /\ Rendered
    /\ forgeJob.running
    /\ forgeJob.jobId # 0
    /\ ~\E f \in fetches : f.kind = "cancel" /\ f.jobId = forgeJob.jobId
    /\ fetches' = fetches \cup
         {[kind |-> "cancel", instance |-> instance.n, jobId |-> forgeJob.jobId,
           state |-> "sent"]}
    /\ UNCHANGED <<instance, forgeJob, localStorage, forgeStream, dashboard>>
    /\ UNCHANGED <<jobs, nextJobId, results, nextResultId, activeJobs, sseClients, proc,
                   startWait, cancelWait, closePc, clientPc, clientJob, clientFound,
                   inbox, ended, cancelAccepted, estimate, dbVars, libVars, diskVars>>

\* The request of cancelJob reaches POST /cancel/:jobId
CancelArrives(f) ==
    /\ f \in fetches /\ f.kind = "cancel" /\ f.state = "sent"
    /\ fetches' = (fetches \ {f}) \cup {[f EXCEPT !.state = "arrived"]}
    /\ UNCHANGED <<instance, forgeJob, localStorage, forgeStream, dashboard>>
    /\ CancelHandler(f.jobId)

\* cancelJob after api.forge.cancel returned (useForgeJob.ts 83-90)
CancelReturns(f) ==
    /\ f \in fetches /\ f.kind = "cancel" /\ f.state = "arrived"
    /\ f.jobId \notin cancelWait
    /\ instance.mounted /\ instance.n = f.instance => Rendered
    /\ fetches' = fetches \ {f}
    /\ forgeJob' = IF instance.mounted /\ instance.n = f.instance THEN NoJob ELSE forgeJob
    /\ localStorage' = NoItem
    /\ UNCHANGED <<instance, forgeStream, dashboard>>
    /\ UNCHANGED <<jobs, nextJobId, results, nextResultId, activeJobs, sseClients, proc,
                   startWait, cancelWait, closePc, clientPc, clientJob, clientFound,
                   inbox, ended, cancelAccepted, estimate, dbVars, libVars, diskVars>>

\* eventSource.onmessage (part_008 46-71): the next event of the stream
SourceMessage ==
    /\ Rendered
    /\ forgeStream.source \in forgeStream.open
    /\ forgeStream.seen < Len(inbox[forgeStream.source])
    /\ LET data == inbox[forgeStream.source][forgeStream.seen + 1]
       IN  forgeStream' =
             IF data.status \in Terminal
             THEN [Cleanup(forgeStream) EXCEPT !.status = data,
                                               !.seen = forgeStream.seen + 1]
             ELSE [forgeStream EXCEPT !.status = data, !.seen = forgeStream.seen + 1]
    /\ UNCHANGED <<instance, forgeJob, localStorage, fetches, dashboard>>
    /\ UNCHANGED <<jobs, nextJobId, results, nextResultId, activeJobs, sseClients, proc,
                   startWait, cancelWait, closePc, clientPc, clientJob, clientFound,
                   inbox, ended, cancelAccepted, estimate, dbVars, libVars, diskVars>>

\* eventSource.onerror (part_008 73-81, 104): the connection failed, or the
\* server ended the stream; the source is closed and the poll interval set
SourceError ==
    /\ Rendered
    /\ forgeStream.source \in forgeStream.open
    /\ forgeStream' = [forgeStream EXCEPT !.open = forgeStream.open \ {forgeStream.source},
                                          !.timers = forgeStream.timers \cup {forgeStream.source}]
    /\ UNCHANGED <<instance, forgeJob, localStorage, fetches, dashboard>>
    /\ UNCHANGED <<jobs, nextJobId, results, nextResultId, activeJobs, sseClients, proc,
                   startWait, cancelWait, closePc, clientPc, clientJob, clientFound,
                   inbox, ended, cancelAccepted, estimate, dbVars, libVars, diskVars>>

\* The requests of the poll interval that are in flight
Polls == {f \in fetches : f.kind = "poll"}

\* GET /status/:jobId (forge.mjs 332-346): the job as the server reads it
StatusResponse(j) ==
    IF FindJob(j) = 0 THEN [ok |-> FALSE]
    ELSE [ok |-> TRUE, id |-> j, status |-> JobOf(j).status,
          totalBranches |-> JobOf(j).totalBranches,
          completedBranches |-> JobOf(j).completedBranches,
          passingBranches |-> JobOf(j).passingBranches]

\* The poll interval fires (part_008 83-85): GET /status/:jobId for the job of
\* the effect that set the interval
PollTick ==
    /\ \E f \in Sources :
          /\ f.source \in forgeStream.timers
          /\ Cardinality(Polls) < MaxPolls
          /\ fetches' = fetches \cup
               {[kind |-> "poll", instance |-> instance.n, source |-> f.source,
                 response |-> StatusResponse(f.jobId)]}
    /\ UNCHANGED <<instance, forgeJob, localStorage, forgeStream, dashboard>>
    /\ UNCHANGED <<jobs, nextJobId, results, nextResultId, activeJobs, sseClients, proc,
                   startWait, cancelWait, closePc, clientPc, clientJob, clientFound,
                   inbox, ended, cancelAccepted, estimate, dbVars, libVars, diskVars>>

\* The poll that never clears its interval
TimersAfterPollKept(timers, source, status) == timers

\* part_008 95-98: clearInterval(pollInterval) once the polled job is done
TimersAfterPoll(timers, source, status) ==
    IF status \in Terminal THEN timers \ {source} ELSE timers

\* The poll's continuation (part_008 86-99): setStatus of the instance that
\* polled, whichever job its hook follows by now
PollReturns(f) ==
    /\ f \in Polls
    /\ instance.mounted /\ instance.n = f.instance => Rendered
    /\ fetches' = fetches \ {f}
    /\ forgeStream' =
         IF ~f.response.ok THEN forgeStream
         ELSE [forgeStream EXCEPT
                 !.status = IF instance.mounted /\ instance.n = f.instance
                            THEN [jobId |-> f.response.id, status |-> f.response.status,
                                  totalBranches |-> f.response.totalBranches,
                                  completedBranches |-> f.response.completedBranches,
                                  passingBranches |-> f.response.passingBranches]
                            ELSE forgeStream.status,
                 !.timers = TimersAfterPoll(forgeStream.timers, f.source,
                                            f.response.status)]
    /\ UNCHANGED <<instance, forgeJob, localStorage, dashboard>>
    /\ UNCHANGED <<jobs, nextJobId, results, nextResultId, activeJobs, sseClients, proc,
                   startWait, cancelWait, closePc, clientPc, clientJob, clientFound,
                   inbox, ended, cancelAccepted, estimate, dbVars, libVars, diskVars>>

\* The engine under the dashboard: it prints the progress of each ticker within
\* the 2 seconds of the update throttle, finds no passing branch, and ends
\* killed, crashed or with its result
EngineRuns == \E j \in JobIds : ProgressLine(j, {}, MaxMetric, FALSE)

EngineEnds ==
    \E j \in JobIds :
        proc[j].state = "running" /\
        \E exit \in EngineExits(JobOf(j).config, proc[j]) :
            /\ exit.code # "0" \/ (exit.out.kind = "json" /\ exit.out.success)
            /\ CloseBegin(j, exit)

\* The actions of the server and of the engine under the dashboard
ServerStep ==
    \/ StartArrives
    \/ \E f \in fetches : CancelArrives(f)
    \/ StreamRequest
    \/ SourceGone
    \/ \E j \in JobIds : StartSpawn(j)
    \/ EngineRuns
    \/ EngineEnds
    \/ \E j \in JobIds : CloseSaved(j)
    \/ \E j \in JobIds : CloseFinish(j)
    \/ \E j \in JobIds : CancelFinish(j)
    \/ \E c \in Clients : StreamInitial(c)

\* What happens in a mounted dashboard
DashboardStep ==
    \/ StreamEffect
    \/ DashboardEffect
    \/ \E f \in fetches : StartReturns(f)
    \/ CancelClicked
    \/ \E f \in fetches : CancelReturns(f)
    \/ SourceMessage

\* The connection of the event source fails and the hook polls
PollingStep ==
    \/ SourceError
    \/ PollTick
    \/ \E f \in fetches : PollReturns(f)

\* Nothing is going on: no engine runs, no handler is at work, no request is
\* on its way and no stream is open
Quiet ==
    /\ activeJobs = {} /\ startWait = {} /\ cancelWait = {}
    /\ \A j \in JobIds : proc[j].state # "running" /\ closePc[j] \in {"idle", "done"}
    /\ \A f \in fetches : f.kind = "stream" \/ (f.kind = "start" /\ f.state = "done")
    /\ \A c \in Clients : clientPc[c] \in {"idle", "gone"}

\* One dashboard that stays mounted, and the jobs it starts one after another
NextUi ==
    \/ instance.n = 0 /\ Mount
    \/ Quiet /\ StartClicked
    \/ DashboardStep
    \/ EffectsRan /\ ServerStep

SpecUi == Init /\ [][NextUi]_vars

\* One dashboard with one job, whose event source may fail, until its tab is left
NextStream ==
    \/ instance.n = 0 /\ Mount
    \/ Rendered /\ Unmount
    \/ Cardinality(Starts) < MaxJobs /\ StartClicked
    \/ DashboardStep
    \/ PollingStep
    \/ EffectsRan /\ ServerStep

SpecStream == Init /\ [][NextStream]_vars

\* React runs the pending effects, the interval keeps firing while it is set
\* and every poll is answered. Nothing obliges the server, the engine or the
\* user to do anything.
FairSpecStream ==
    /\ SpecStream
    /\ WF_vars(StreamEffect)
    /\ WF_vars(DashboardEffect)
    /\ WF_vars(PollTick)
    /\ WF_vars(\E f \in fetches : PollReturns(f))

\* The dashboard mounted and unmounted as the tabs are switched, with one job
NextTabs ==
    \/ Mount
    \/ Rendered /\ Unmount
    \/ Cardinality(Starts) < MaxJobs /\ StartClicked
    \/ DashboardStep
    \/ EffectsRan /\ ServerStep

SpecTabs == Init /\ [][NextTabs]_vars

----------------------------------------------------------------------------
(* Properties of the browser *)

\* completeJob ran: running turned false in the mounted dashboard, which kept
\* its jobId
CompleteJobCalled ==
    /\ instance.mounted /\ instance' = instance
    /\ forgeJob.running /\ ~forgeJob'.running
    /\ forgeJob'.jobId = forgeJob.jobId

\* C19: the dashboard calls completeJob only when the job of the current jobId
\* is completed, failed or cancelled; running stays true while that job is not
\* terminal, also for a second job started after an earlier one finished.
CompleteJobOnlyWhenTerminal ==
    [][CompleteJobCalled =>
          /\ FindJob(forgeJob.jobId) # 0
          /\ JobOf(forgeJob.jobId).status \in Terminal]_vars

\* Every call of startJob and cancelJob has returned, and the effects of the
\* mounted dashboard (its restore on mount, its completeJob) have run
CallsFinished ==
    /\ Rendered
    /\ \A f \in fetches : f.kind \in {"start", "cancel"} => f.state = "done"

\* C20: once the mount-restore, startJob, cancelJob and completeJob calls have
\* each finished, localStorage holds an active-job record exactly when the
\* hook's running flag is true, and the record's jobId and startTime are the
\* hook's.
StoredIffRunning ==
    CallsFinished =>
        /\ localStorage.stored <=> forgeJob.running
        /\ localStorage.stored =>
              /\ localStorage.jobId = forgeJob.jobId
              /\ localStorage.startTime = forgeJob.startTime

\* The job an event source was created for, 0 before it is created
SourceJob(c) ==
    IF \E f \in Sources : f.source = c
    THEN (CHOOSE f \in Sources : f.source = c).jobId
    ELSE 0

\* The interval of source c is set and its job has a terminal status
PollingDoneJob(c) ==
    /\ c \in forgeStream.timers
    /\ FindJob(SourceJob(c)) # 0
    /\ JobOf(SourceJob(c)).status \in Terminal

\* The interval of source c is cleared, with the job's terminal status in
\* status or after the cleanup of the effect
PollingStopped(c) ==
    /\ c \notin forgeStream.timers
    /\ \/ /\ forgeStream.status.status \in Terminal
          /\ forgeStream.status.jobId = SourceJob(c)
       \/ ~instance.mounted
       \/ forgeStream.jobId # SourceJob(c)

\* An event source is open or polled only in a mounted dashboard, for the job
\* its hook follows, and never both
StreamFollowsJob ==
    \A c \in forgeStream.open \cup forgeStream.timers :
        /\ instance.mounted
        /\ c = forgeStream.source
        /\ SourceJob(c) = forgeStream.jobId
        /\ ~(c \in forgeStream.open /\ c \in forgeStream.timers)

\* C18: an event source that errors before a terminal status was received is
\* closed and its job polled; once the job is terminal, answered polls lead to
\* status holding the job's terminal status with the interval cleared for
\* good; unmounting or changing jobId leaves no event source open and no
\* interval set.
PollingConverges ==
    /\ \A c \in Clients : PollingDoneJob(c) ~> PollingStopped(c)
    /\ \A c \in Clients : PollingDoneJob(c) ~> [](c \notin forgeStream.timers)
    /\ []StreamFollowsJob
    /\ [][\A c \in Clients :
            (c \in forgeStream.open /\ c \notin forgeStream'.open)
            => \/ c \in forgeStream'.timers
               \/ forgeStream'.status.status \in Terminal
               \/ ~instance'.mounted
               \/ forgeStream'.jobId # SourceJob(c)]_vars

\* A poll's answer put a terminal status into status and cleared the interval:
\* the source handed no event to onmessage
PolledTerminalStatus ==
    /\ instance.mounted
    /\ forgeStream.source # 0
    /\ forgeStream.seen = 0
    /\ forgeStream.status.status \in Terminal
    /\ forgeStream.open = {} /\ forgeStream.timers = {}

----------------------------------------------------------------------------
(* useForgeJobPersistence: the item forge_active_job of localStorage *)

\* JavaScript values, as far as the item can hold them
JsUndefined == [t |-> "undefined"]
JsNull == [t |-> "null"]
JsNumber(v) == [t |-> "number", v |-> v]
JsObject(jobId, startTime) == [t |-> "object", jobId |-> jobId, startTime |-> startTime]

\* The numbers saveActiveJob is called with: typeof gives 'number' for each
Numbers == {JsNumber(v) : v \in {"0", "1", "2", "NaN", "Infinity"}}

Finite(n) == n.v \notin {"NaN", "Infinity"}

\* JSON.stringify of a property value: a number that is not finite is written
\* as null, an undefined property is left out
Stringify(value) ==
    IF value.t = "number" /\ ~Finite(value) THEN JsNull ELSE value

\* What JSON text can hold as a property value
PropertyValues ==
    {JsUndefined, JsNull, [t |-> "string", v |-> "1"]} \cup {n \in Numbers : Finite(n)}

\* The texts the item may hold: none (getItem returns null), the empty string,
\* text that is no JSON, and the JSON of null, of a number, of an array and of
\* objects with or without jobId and startTime
Texts ==
    {[text |-> "none"], [text |-> "empty"], [text |-> "invalid"]}
    \cup {[text |-> "json", value |-> v] :
            v \in {JsNull, JsNumber("1"), [t |-> "array"]}
                  \cup {JsObject(a, b) : a \in PropertyValues, b \in PropertyValues}}

\* typeof
Typeof(value) == IF value.t \in {"null", "array"} THEN "object" ELSE value.t

\* activeJob.jobId and activeJob.startTime: undefined on what has no such property
Property(value, name) == IF name \in DOMAIN value THEN value[name] ELSE JsUndefined

\* The validation that does not look at startTime
ValidJobIdOnly(activeJob) ==
    ~(\/ Typeof(activeJob) # "object"
      \/ activeJob = JsNull
      \/ Typeof(Property(activeJob, "jobId")) # "number")

\* The validation of restoreActiveJob (useForgeJobPersistence.ts 91-96)
ValidActiveJob(activeJob) ==
    ~(\/ Typeof(activeJob) # "object"
      \/ activeJob = JsNull
      \/ Typeof(Property(activeJob, "jobId")) # "number"
      \/ Typeof(Property(activeJob, "startTime")) # "number")

\* restoreActiveJob (useForgeJobPersistence.ts 84-106): JSON.parse throws on
\* text that is no JSON, and the catch returns null
RestoreActiveJob(stored) ==
    IF stored.text \in {"none", "empty"}      \* if (!stored) return null
    THEN [called |-> TRUE, threw |-> FALSE, value |-> JsNull]
    ELSE IF stored.text = "invalid"           \* JSON.parse throws, catch returns null
    THEN [called |-> TRUE, threw |-> FALSE, value |-> JsNull]
    ELSE IF ~ValidActiveJob(stored.value)
         THEN [called |-> TRUE, threw |-> FALSE, value |-> JsNull]
    ELSE [called |-> TRUE, threw |-> FALSE, value |-> stored.value]

NotSaved == [args |-> "none"]
NotCalled == [called |-> FALSE]

\* saveActiveJob(jobId, startTime) (useForgeJobPersistence.ts 40-47); setItem
\* throws when the storage is full or switched off, and the catch logs it
CallSaveActiveJob(jobId, startTime, full) ==
    /\ IF full THEN UNCHANGED <<storage, saved>>
       ELSE /\ storage' = [text |-> "json",
                           value |-> JsObject(Stringify(jobId), Stringify(startTime))]
            /\ saved' = [args |-> "given", jobId |-> jobId, startTime |-> startTime]
    /\ restored' = NotCalled
    /\ UNCHANGED exceptStorage

\* clearActiveJob (useForgeJobPersistence.ts 49-55)
CallClearActiveJob ==
    /\ storage' = [text |-> "none"]
    /\ saved' = NotSaved
    /\ restored' = NotCalled
    /\ UNCHANGED exceptStorage

\* Something else writes the item: another version of the page, the user
OtherWrite(text) ==
    /\ storage' = text
    /\ saved' = NotSaved
    /\ restored' = NotCalled
    /\ UNCHANGED exceptStorage

CallRestoreActiveJob ==
    /\ restored' = RestoreActiveJob(storage)
    /\ UNCHANGED <<storage, saved>>
    /\ UNCHANGED exceptStorage

NextStorage ==
    \/ \E jobId \in Numbers, startTime \in Numbers, full \in BOOLEAN :
          CallSaveActiveJob(jobId, startTime, full)
    \/ CallClearActiveJob
    \/ \E text \in Texts : OtherWrite(text)
    \/ CallRestoreActiveJob

SpecStorage == Init /\ [][NextStorage]_vars

\* The stored value lacks a numeric jobId or startTime
LacksNumbers(stored) ==
    \/ stored.text \in {"none", "empty", "invalid"}
    \/ Typeof(Property(stored.value, "jobId")) # "number"
    \/ Typeof(Property(stored.value, "startTime")) # "number"

\* restoreActiveJob never throws, and returns null when nothing is stored, the
\* text is no JSON or the value lacks a numeric jobId or startTime
RestoresNullOnBadItem ==
    restored.called =>
        /\ ~restored.threw
        /\ LacksNumbers(storage) => restored.value = JsNull

\* C21 as stated: restoreActiveJob returns the {jobId, startTime} most recently
\* written by saveActiveJob with numeric arguments if clearActiveJob was not
\* called since, and null, without throwing, on a missing or malformed item.
RestoreReturnsSaved ==
    /\ RestoresNullOnBadItem
    /\ (restored.called /\ saved # NotSaved) =>
          restored.value = JsObject(saved.jobId, saved.startTime)

\* C21, amended: the same for a saveActiveJob called with finite numbers; a
\* NaN or an Infinity is stored as null and restoreActiveJob then returns null.
RestoreReturnsSavedFinite ==
    /\ RestoresNullOnBadItem
    /\ (restored.called /\ saved # NotSaved) =>
          restored.value =
             IF Finite(saved.jobId) /\ Finite(saved.startTime)
             THEN JsObject(saved.jobId, saved.startTime)
             ELSE JsNull

\* restoreActiveJob returned what a saveActiveJob with finite numbers wrote
RestoredSavedJob ==
    /\ restored.called /\ saved # NotSaved
    /\ Finite(saved.jobId) /\ Finite(saved.startTime)
    /\ restored.value # JsNull

----------------------------------------------------------------------------
(* cache.mjs: the backtest cache and its daily refresh *)

BotIds == 1..MaxBots
Hashes == {"h1", "h2"}
Days == 1..MaxDays

\* Backtest results as their JSON holds them
BacktestResults == {[cagr |-> m] : m \in 1..MaxMetric}

\* The rows of a bot
RowsOfBot(table, botId) == {i \in 1..Len(table) : table[i].bot_id = botId}

\* INSERT without the ON CONFLICT clause
Inserted(table, row) == Append(table, row)

\* INSERT ... ON CONFLICT(bot_id) DO UPDATE SET ... (cache.mjs 135-144)
Upserted(table, row) ==
    IF RowsOfBot(table, row.bot_id) = {} THEN Append(table, row)
    ELSE [i \in 1..Len(table) |-> IF table[i].bot_id = row.bot_id THEN row ELSE table[i]]

\* DELETE FROM backtest_cache WHERE bot_id = ? (cache.mjs 153)
Deleted(table, botId) == SelectSeq(table, LAMBDA row : row.bot_id # botId)

\* getCachedBacktest (cache.mjs 87-122), null as <<>>
GetCachedBacktest(botId, currentPayloadHash, currentDataDate) ==
    IF RowsOfBot(backtestCache, botId) = {} THEN <<>>
    ELSE LET row == backtestCache[CHOOSE i \in RowsOfBot(backtestCache, botId) : TRUE]
         IN  IF row.payload_hash # currentPayloadHash THEN <<>>
             ELSE IF row.data_date # currentDataDate THEN <<>>
             ELSE <<[cagr |-> row.results.cagr, cached |-> TRUE, cachedAt |-> row.computed_at]>>

CallGetCachedBacktest(botId, payloadHash, dataDate) ==
    /\ cacheCall' = [op |-> "get", botId |-> botId, payloadHash |-> payloadHash,
                     dataDate |-> dataDate,
                     returned |-> GetCachedBacktest(botId, payloadHash, dataDate)]
    /\ UNCHANGED <<backtestCache, lastRefreshDate, today, clock, latest>>
    /\ UNCHANGED exceptCache

\* setCachedBacktest (cache.mjs 131-147)
CallSetCachedBacktest(botId, payloadHash, dataDate, result) ==
    /\ clock < MaxSets
    /\ clock' = clock + 1
    /\ backtestCache' = Upserted(backtestCache,
            [bot_id |-> botId, payload_hash |-> payloadHash, data_date |-> dataDate,
             results |-> result, computed_at |-> clock])
    /\ latest' = [latest EXCEPT ![botId] =
            [set |-> TRUE, payloadHash |-> payloadHash, dataDate |-> dataDate,
             results |-> result, now |-> clock]]
    /\ cacheCall' = [op |-> "set"]
    /\ UNCHANGED <<lastRefreshDate, today>>
    /\ UNCHANGED exceptCache

\* invalidateBotCache (cache.mjs 152-158)
CallInvalidateBotCache(botId) ==
    /\ backtestCache' = Deleted(backtestCache, botId)
    /\ latest' = [latest EXCEPT ![botId] = [set |-> FALSE]]
    /\ cacheCall' = [op |-> "invalidate", returned |-> RowsOfBot(backtestCache, botId) # {}]
    /\ UNCHANGED <<lastRefreshDate, today, clock>>
    /\ UNCHANGED exceptCache

\* invalidateAllCache (cache.mjs 163-167)
CallInvalidateAllCache ==
    /\ backtestCache' = <<>>
    /\ latest' = [b \in BotIds |-> [set |-> FALSE]]
    /\ cacheCall' = [op |-> "invalidateAll", returned |-> Len(backtestCache)]
    /\ UNCHANGED <<lastRefreshDate, today, clock>>
    /\ UNCHANGED exceptCache

\* checkAndTriggerDailyRefresh that does not record the date
RefreshedNotRecorded(date) == lastRefreshDate

\* setLastRefreshDate (cache.mjs 187-201): the date of the clock when it runs
SetLastRefreshDate(date) == date

\* checkAndTriggerDailyRefresh (cache.mjs 208-226). The date is read again by
\* setLastRefreshDate: midnight may pass in between.
CallCheckAndTriggerDailyRefresh(midnight) ==
    /\ midnight => today < MaxDays
    /\ IF lastRefreshDate = today
       THEN /\ cacheCall' = [op |-> "refresh", returned |-> FALSE]
            /\ UNCHANGED <<backtestCache, lastRefreshDate, today, latest>>
       ELSE /\ cacheCall' = [op |-> "refresh", returned |-> TRUE]
            /\ backtestCache' = <<>>
            /\ latest' = [b \in BotIds |-> [set |-> FALSE]]
            /\ today' = IF midnight THEN today + 1 ELSE today
            /\ lastRefreshDate' = SetLastRefreshDate(today')
    /\ UNCHANGED clock
    /\ UNCHANGED exceptCache

\* The date changes
DayPasses ==
    /\ today < MaxDays
    /\ today' = today + 1
    /\ cacheCall' = [op |-> "none"]
    /\ UNCHANGED <<backtestCache, lastRefreshDate, clock, latest>>
    /\ UNCHANGED exceptCache

NextCache ==
    \/ \E botId \in BotIds, payloadHash \in Hashes, dataDate \in Days :
          CallGetCachedBacktest(botId, payloadHash, dataDate)
    \/ \E botId \in BotIds, payloadHash \in Hashes, dataDate \in Days,
          result \in BacktestResults :
          CallSetCachedBacktest(botId, payloadHash, dataDate, result)
    \/ \E botId \in BotIds : CallInvalidateBotCache(botId)
    \/ CallInvalidateAllCache
    \/ \E midnight \in BOOLEAN : CallCheckAndTriggerDailyRefresh(midnight)
    \/ DayPasses

SpecCache == Init /\ [][NextCache]_vars

\* C22: getCachedBacktest returns a result only when the bot's most recent
\* setCachedBacktest since its rows were last deleted stored the asked payload
\* hash and data date, and then the results of that call; in every other case
\* it returns null; the table never holds two rows of one bot.
CacheHitIsLatestSet ==
    /\ \A botId \in BotIds : Cardinality(RowsOfBot(backtestCache, botId)) <= 1
    /\ cacheCall.op = "get" =>
          LET set == latest[cacheCall.botId]
              hit == /\ set.set
                     /\ set.payloadHash = cacheCall.payloadHash
                     /\ set.dataDate = cacheCall.dataDate
          IN  IF hit
              THEN /\ cacheCall.returned # <<>>
                   /\ cacheCall.returned[1].cagr = set.results.cagr
                   /\ cacheCall.returned[1].cachedAt = set.now
              ELSE cacheCall.returned = <<>>

\* A hit on the row of a later setCachedBacktest, while another bot has its row too
HitAfterOverwrite ==
    /\ cacheCall.op = "get"
    /\ cacheCall.returned # <<>>
    /\ cacheCall.returned[1].cachedAt > 1
    /\ \E b \in BotIds : b # cacheCall.botId /\ latest[b].set

\* C23: checkAndTriggerDailyRefresh returns true, removes every row and records
\* the date exactly when the recorded date differs from today's; a further
\* call on the same date returns false and removes nothing.
DailyRefreshOncePerDate ==
    [][cacheCall'.op = "refresh" =>
          IF lastRefreshDate # today
          THEN /\ cacheCall'.returned
               /\ backtestCache' = <<>>
               /\ lastRefreshDate' = today'
          ELSE /\ ~cacheCall'.returned
               /\ backtestCache' = backtestCache
               /\ lastRefreshDate' = lastRefreshDate]_vars

\* A call on the date of the last refresh found rows stored since, and left them
RefreshSkippedWithRows ==
    /\ cacheCall.op = "refresh"
    /\ ~cacheCall.returned
    /\ backtestCache # <<>>

\* ---------------------------------------------------------------------------
\* middleware/auth.mjs: authenticate, requireAdmin, requireSuperAdmin
\* ---------------------------------------------------------------------------

UserIds == 1..MaxUsers
Statuses == {"active", "suspended"}
Roles == {"user", "admin"}

\* Column email of a row: every user has an address of their own
EmailOf(id) == IF id = 1 THEN "one@example.com" ELSE "other@example.com"

\* payload.sub of a token: the id of a row, or an id that has no row
Subjects == 1..(MaxUsers + 1)

\* What jwt.verify does with a token: it returns the payload of a token signed
\* with JWT_SECRET that has not expired, and throws for the others
Tokens ==
    {[kind |-> "valid", sub |-> s] : s \in Subjects}
        \cup {[kind |-> k, sub |-> 1] : k \in {"expired", "forged"}}
        \cup {[kind |-> "malformed", sub |-> 0]}

\* req.headers.authorization: absent, empty, of another scheme, or Bearer
Headers ==
    {[scheme |-> "undefined", token |-> [kind |-> "none", sub |-> 0]],
     [scheme |-> "", token |-> [kind |-> "none", sub |-> 0]],
     [scheme |-> "Basic", token |-> [kind |-> "none", sub |-> 0]]}
        \cup {[scheme |-> "Bearer", token |-> t] : t \in Tokens}

\* process.env.ADMIN_EMAIL: unset, empty, or an address
Unset == [set |-> FALSE, value |-> ""]
AdminEmails ==
    {Unset} \cup {[set |-> TRUE, value |-> v] :
                      v \in {"", "one@example.com", "admin@example.com"}}

NoUser == [id |-> 0, email |-> "", role |-> ""]

\* What one middleware did: the statuses it answered with, how often it
\* called next(), and req.user as it left it
Responded(status, user) == [sent |-> <<status>>, nexts |-> 0, user |-> user]
CalledNext(user) == [sent |-> <<>>, nexts |-> 1, user |-> user]
NotRun == [sent |-> <<>>, nexts |-> 0, user |-> NoUser]

\* authenticate without the check of the row's status
AuthenticateAnyStatus(header, rows) ==
    IF header.scheme # "Bearer"
    THEN Responded(401, NoUser)
    ELSE IF header.token.kind # "valid"
         THEN Responded(401, NoUser)
         ELSE IF header.token.sub \notin DOMAIN rows
              THEN Responded(401, NoUser)
              ELSE CalledNext([id |-> header.token.sub,
                               email |-> EmailOf(header.token.sub),
                               role |-> rows[header.token.sub].role])

\* authenticate(req, res, next)
Authenticate(header, rows) ==
    IF header.scheme # "Bearer"
    THEN Responded(401, NoUser)                     \* 'Authentication required'
    ELSE IF header.token.kind # "valid"
         THEN Responded(401, NoUser)                \* jwt.verify threw: the catch
         ELSE IF header.token.sub \notin DOMAIN rows
              THEN Responded(401, NoUser)           \* 'User not found'
              ELSE IF rows[header.token.sub].status # "active"
                   THEN Responded(401, NoUser)      \* 'Account is not active'
                   ELSE CalledNext([id |-> header.token.sub,
                                    email |-> EmailOf(header.token.sub),
                                    role |-> rows[header.token.sub].role])

\* requireAdmin(req, res, next)
RequireAdmin(user) ==
    IF user.role # "admin" THEN Responded(403, user) ELSE CalledNext(user)

\* requireSuperAdmin(req, res, next): an unset and an empty ADMIN_EMAIL are
\* both falsy
RequireSuperAdmin(user, adminEmail) ==
    IF ~adminEmail.set \/ adminEmail.value = ""
    THEN Responded(500, user)
    ELSE IF user = NoUser \/ user.email # adminEmail.value
         THEN Responded(403, user)
         ELSE CalledNext(user)

Chains == {"authenticate", "requireAdmin", "requireSuperAdmin"}

\* One request through authenticate and the middleware mounted after it,
\* which runs when authenticate called next()
Request(header, adminEmail, chain) ==
    /\ authCall' =
          LET auth == Authenticate(header, users)
          IN  [chain |-> chain, header |-> header, adminEmail |-> adminEmail,
               rows |-> users, auth |-> auth,
               guard |-> IF auth.nexts = 0 \/ chain = "authenticate" THEN NotRun
                         ELSE IF chain = "requireAdmin" THEN RequireAdmin(auth.user)
                         ELSE RequireSuperAdmin(auth.user, adminEmail)]
    /\ UNCHANGED users
    /\ UNCHANGED exceptAuth

\* An administrator changes the status or the role of a user
SetStatus(id, status) ==
    /\ users[id].status # status
    /\ users' = [users EXCEPT ![id].status = status]
    /\ UNCHANGED authCall
    /\ UNCHANGED exceptAuth

SetRole(id, role) ==
    /\ users[id].role # role
    /\ users' = [users EXCEPT ![id].role = role]
    /\ UNCHANGED authCall
    /\ UNCHANGED exceptAuth

NextAuth ==
    \/ \E header \in Headers, adminEmail \in AdminEmails, chain \in Chains :
          Request(header, adminEmail, chain)
    \/ \E id \in UserIds, status \in Statuses : SetStatus(id, status)
    \/ \E id \in UserIds, role \in Roles : SetRole(id, role)

SpecAuth == Init /\ [][NextAuth]_vars

\* The request carries a Bearer token that verifies and whose subject is a row
\* of users with status active
Authentic(c) ==
    /\ c.header.scheme = "Bearer"
    /\ c.header.token.kind = "valid"
    /\ c.header.token.sub \in DOMAIN c.rows
    /\ c.rows[c.header.token.sub].status = "active"

\* A middleware either answered once or called next() once
OneOutcome(m) == Len(m.sent) + m.nexts = 1

\* C24: authenticate calls next() exactly for a Bearer token that verifies and
\* names an active user, and answers 401 otherwise; requireAdmin and
\* requireSuperAdmin after it call next() only for role admin, respectively
\* the address of ADMIN_EMAIL, and answer 403 otherwise (500 without
\* ADMIN_EMAIL); each middleware that ran answered or called next(), not both.
MiddlewaresGuard ==
    authCall.chain # "none" =>
        /\ OneOutcome(authCall.auth)
        /\ IF Authentic(authCall)
           THEN authCall.auth.nexts = 1
           ELSE authCall.auth.sent = <<401>>
        /\ authCall.auth.nexts = 0 => authCall.guard = NotRun
        /\ (authCall.auth.nexts = 1 /\ authCall.chain = "requireAdmin") =>
              /\ OneOutcome(authCall.guard)
              /\ IF authCall.rows[authCall.header.token.sub].role = "admin"
                 THEN authCall.guard.nexts = 1
                 ELSE authCall.guard.sent = <<403>>
        /\ (authCall.auth.nexts = 1 /\ authCall.chain = "requireSuperAdmin") =>
              /\ OneOutcome(authCall.guard)
              /\ IF ~authCall.adminEmail.set \/ authCall.adminEmail.value = ""
                 THEN authCall.guard.sent = <<500>>
                 ELSE IF EmailOf(authCall.header.token.sub) = authCall.adminEmail.value
                      THEN authCall.guard.nexts = 1
                      ELSE authCall.guard.sent = <<403>>

\* The valid token of an administrator whose account is suspended is answered
\* 401 on a route for administrators
SuspendedRefused ==
    /\ authCall.chain = "requireAdmin"
    /\ authCall.header.token.kind = "valid"
    /\ authCall.header.token.sub \in DOMAIN authCall.rows
    /\ authCall.rows[authCall.header.token.sub].status = "suspended"
    /\ authCall.rows[authCall.header.token.sub].role = "admin"
    /\ authCall.auth.sent = <<401>>

\* ---------------------------------------------------------------------------
\* The engine's kernels, from the design: BacktestKernel
\* ---------------------------------------------------------------------------

MaxBars == 3

\* The value that marks a warm-up entry of an indicator series
Sentinel == -1

IndicatorValues == 0..MaxThreshold

\* rawSignal[i]: the comparison of indicator[i] with the threshold, false at a
\* warm-up position
RawSignal(value, comparator, threshold) ==
    IF value = Sentinel THEN FALSE
    ELSE IF comparator = "GT" THEN value > threshold
    ELSE value < threshold

\* The position series without the execution lag: position[i] = rawSignal[i]
PositionSameBar(indicator, comparator, threshold) ==
    [i \in 1..Len(indicator) |-> RawSignal(indicator[i], comparator, threshold)]

\* The position series: position[0] = false, position[i+1] = rawSignal[i]
\* (bar i of the design is element i+1 here)
Position(indicator, comparator, threshold) ==
    [i \in 1..Len(indicator) |->
        IF i = 1 THEN FALSE
        ELSE RawSignal(indicator[i - 1], comparator, threshold)]

\* Two runs of the kernel over the indicator series a and b
Backtest(comparator, threshold, a, b) ==
    [run |-> "backtest", comparator |-> comparator, threshold |-> threshold,
     a |-> a, b |-> b,
     positionA |-> Position(a, comparator, threshold),
     positionB |-> Position(b, comparator, threshold)]

\* Warm-up entries are the first entries of a series
MayFollow(series, value) ==
    IF value = Sentinel /\ Len(series) > 0 THEN series[Len(series)] = Sentinel ELSE TRUE

\* Two runs start with a comparator and a threshold
StartBacktest(comparator, threshold) ==
    /\ kernel.run = "none"
    /\ kernel' = Backtest(comparator, threshold, <<>>, <<>>)
    /\ UNCHANGED exceptKernel

\* One more bar of each run's series; the kernel runs over the whole series
NextBar(valueA, valueB) ==
    /\ kernel.run = "backtest"
    /\ Len(kernel.a) < MaxBars
    /\ MayFollow(kernel.a, valueA)
    /\ MayFollow(kernel.b, valueB)
    /\ kernel' = Backtest(kernel.comparator, kernel.threshold,
                          Append(kernel.a, valueA), Append(kernel.b, valueB))
    /\ UNCHANGED exceptKernel

NextBacktest ==
    \/ \E comparator \in {"LT", "GT"}, threshold \in IndicatorValues :
          StartBacktest(comparator, threshold)
    \/ \E valueA, valueB \in IndicatorValues \cup {Sentinel} : NextBar(valueA, valueB)

SpecBacktest == Init /\ [][NextBacktest]_vars

\* The two series agree on the bars before element i
AgreeBefore(a, b, i) == \A k \in 1..(i - 1) : a[k] = b[k]

\* C25: position[0] is false and position[i+1] is rawSignal[i]; two runs whose
\* indicator series agree on the bars before i have the same position[i],
\* whatever the series hold from bar i on.
NoLookAhead ==
    kernel.run = "backtest" =>
        /\ \A i \in 1..Len(kernel.a) :
              kernel.positionA[i] =
                  IF i = 1 THEN FALSE
                  ELSE RawSignal(kernel.a[i - 1], kernel.comparator, kernel.threshold)
        /\ \A i \in 1..Len(kernel.a) :
              AgreeBefore(kernel.a, kernel.b, i) =>
                  kernel.positionA[i] = kernel.positionB[i]

\* Two runs that agree up to a bar and whose raw signals differ on the bar
\* itself, after a bar on which the position was taken
RunsDifferOnLaterBar ==
    /\ kernel.run = "backtest"
    /\ \E i \in 2..Len(kernel.a) :
          /\ AgreeBefore(kernel.a, kernel.b, i)
          /\ kernel.positionA[i]
          /\ RawSignal(kernel.a[i], kernel.comparator, kernel.threshold)
                 # RawSignal(kernel.b[i], kernel.comparator, kernel.threshold)

\* ---------------------------------------------------------------------------
\* The engine's kernels, from the design: Partitioner
\* ---------------------------------------------------------------------------

\* The dates of bars: a month of a year, December next to January
Dates == {[year |-> y, month |-> m] : y \in {2020, 2021}, m \in {1, 2, 12}}

\* The order of dates
Ordinal(date) == date.year * 12 + date.month

\* The split policies; the chronological one carries its cutoff, oosStartDate
Policies ==
    {[splitStrategy |-> s, oosStartDate |-> [year |-> 0, month |-> 0]] :
         s \in {"even_odd_month", "even_odd_year"}}
        \cup {[splitStrategy |-> "chronological", oosStartDate |-> d] : d \in Dates}

\* The in-sample side of a policy: odd month, odd year, date before the cutoff
InSample(date, policy) ==
    IF policy.splitStrategy = "even_odd_month" THEN date.month % 2 = 1
    ELSE IF policy.splitStrategy = "even_odd_year" THEN date.year % 2 = 1
    ELSE Ordinal(date) < Ordinal(policy.oosStartDate)

\* An out-of-sample side that leaves the cutoff date out
OutOfSampleAfterCutoff(date, policy) ==
    IF policy.splitStrategy = "even_odd_month" THEN date.month % 2 = 0
    ELSE IF policy.splitStrategy = "even_odd_year" THEN date.year % 2 = 0
    ELSE Ordinal(date) > Ordinal(policy.oosStartDate)

\* The out-of-sample side: even month, even year, date on or after the cutoff
OutOfSample(date, policy) ==
    IF policy.splitStrategy = "even_odd_month" THEN date.month % 2 = 0
    ELSE IF policy.splitStrategy = "even_odd_year" THEN date.year % 2 = 0
    ELSE Ordinal(date) >= Ordinal(policy.oosStartDate)

\* partition(dates, policy): the two masks, which both exclude the warmUp
\* first bars
Partition(dates, policy, warmUp) ==
    [run |-> "partition", dates |-> dates, policy |-> policy, warmUp |-> warmUp,
     isMask |-> [i \in 1..Len(dates) |-> i > warmUp /\ InSample(dates[i], policy)],
     oosMask |-> [i \in 1..Len(dates) |-> i > warmUp /\ OutOfSample(dates[i], policy)]]

\* A job's policy and the warm-up of its indicator
StartPartition(policy, warmUp) ==
    /\ kernel.run = "none"
    /\ kernel' = Partition(<<>>, policy, warmUp)
    /\ UNCHANGED exceptKernel

\* One more bar, later than the bars before it; the series is partitioned anew
NextDate(date) ==
    /\ kernel.run = "partition"
    /\ Len(kernel.dates) < MaxBars
    /\ \A i \in 1..Len(kernel.dates) : Ordinal(kernel.dates[i]) < Ordinal(date)
    /\ kernel' = Partition(Append(kernel.dates, date), kernel.policy, kernel.warmUp)
    /\ UNCHANGED exceptKernel

NextPartition ==
    \/ \E policy \in Policies, warmUp \in 0..MaxBars : StartPartition(policy, warmUp)
    \/ \E date \in Dates : NextDate(date)

SpecPartition == Init /\ [][NextPartition]_vars

\* C26: under each policy the two masks are never both true on a bar, and on a
\* bar past the warm-up exactly one is true: the in-sample one on an odd
\* month, an odd year or a date before the cutoff, the other one otherwise.
MasksComplementary ==
    kernel.run = "partition" =>
        \A i \in 1..Len(kernel.dates) :
            /\ ~(kernel.isMask[i] /\ kernel.oosMask[i])
            /\ i > kernel.warmUp =>
                  /\ kernel.isMask[i] # kernel.oosMask[i]
                  /\ kernel.isMask[i] =
                        CASE kernel.policy.splitStrategy = "even_odd_month" ->
                                 kernel.dates[i].month \in {1, 3, 5, 7, 9, 11}
                          [] kernel.policy.splitStrategy = "even_odd_year" ->
                                 kernel.dates[i].year = 2021
                          [] OTHER ->
                                 Ordinal(kernel.dates[i]) < Ordinal(kernel.policy.oosStartDate)

\* A chronological split with a warm-up bar, a bar before the cutoff and a bar
\* on the cutoff date
SplitAtCutoff ==
    /\ kernel.run = "partition"
    /\ kernel.policy.splitStrategy = "chronological"
    /\ kernel.warmUp = 1
    /\ Len(kernel.dates) = 3
    /\ kernel.isMask = <<FALSE, TRUE, FALSE>>
    /\ kernel.dates[3] = kernel.policy.oosStartDate

\* ---------------------------------------------------------------------------
\* The engine's kernels, from the design: Filter
\* ---------------------------------------------------------------------------

MaxLevel == 1
MaxBranches == 2

Levels == 0..MaxLevel

\* A MetricTuple, as far as the filter reads it; MaxDD is not positive
MetricTuples ==
    [TIM : Levels, TIMAR : Levels, MaxDD : {-l : l \in Levels}, trades : Levels,
     TIMARDD : Levels]

\* The filter thresholds of a config
Thresholds ==
    [minTIM : Levels, minTIMAR : Levels, maxDD : Levels, minTrades : Levels,
     minTIMARDD : Levels]

\* The out-of-sample metrics of a branch: the lowest and the highest tuple
OosMetricTuples ==
    {[TIM |-> l, TIMAR |-> l, MaxDD |-> -l, trades |-> l, TIMARDD |-> l] :
         l \in {0, MaxLevel}}

Abs(x) == IF x < 0 THEN -x ELSE x

\* A predicate that reads maxDD as a minimum
PassesDeepDrawdown(isMetrics, thresholds) ==
    /\ isMetrics.TIM >= thresholds.minTIM
    /\ isMetrics.TIMAR >= thresholds.minTIMAR
    /\ Abs(isMetrics.MaxDD) >= thresholds.maxDD
    /\ isMetrics.trades >= thresholds.minTrades
    /\ isMetrics.TIMARDD >= thresholds.minTIMARDD

\* passes(isMetrics, thresholds)
Passes(isMetrics, thresholds) ==
    /\ isMetrics.TIM >= thresholds.minTIM
    /\ isMetrics.TIMAR >= thresholds.minTIMAR
    /\ Abs(isMetrics.MaxDD) <= thresholds.maxDD
    /\ isMetrics.trades >= thresholds.minTrades
    /\ isMetrics.TIMARDD >= thresholds.minTIMARDD

\* No minimum of relaxed is higher than that of thresholds, and its maxDD is
\* not lower
Relaxes(relaxed, thresholds) ==
    /\ relaxed.minTIM <= thresholds.minTIM
    /\ relaxed.minTIMAR <= thresholds.minTIMAR
    /\ relaxed.maxDD >= thresholds.maxDD
    /\ relaxed.minTrades <= thresholds.minTrades
    /\ relaxed.minTIMARDD <= thresholds.minTIMARDD

\* Two jobs over one search space, the second with relaxed thresholds
StartFilter(thresholds, relaxed) ==
    /\ kernel.run = "none"
    /\ Relaxes(relaxed, thresholds)
    /\ kernel' = [run |-> "filter", thresholds |-> thresholds, relaxed |-> relaxed,
                  completedBranches |-> 0, passingBranches |-> 0, passingRelaxed |-> 0,
                  isMetrics |-> <<>>, oosMetrics |-> <<>>, passed |-> <<>>]
    /\ UNCHANGED exceptKernel

\* Both jobs filter the next branch of the space on its in-sample metrics;
\* the out-of-sample metrics are computed and kept, and not read
FilterBranch(isMetrics, oosMetrics) ==
    /\ kernel.run = "filter"
    /\ kernel.completedBranches < MaxBranches
    /\ kernel' = [kernel EXCEPT
          !.completedBranches = @ + 1,
          !.passingBranches = @ + (IF Passes(isMetrics, kernel.thresholds) THEN 1 ELSE 0),
          !.passingRelaxed = @ + (IF Passes(isMetrics, kernel.relaxed) THEN 1 ELSE 0),
          !.isMetrics = <<isMetrics>>,
          !.oosMetrics = <<oosMetrics>>,
          !.passed = <<Passes(isMetrics, kernel.thresholds),
                       Passes(isMetrics, kernel.relaxed)>>]
    /\ UNCHANGED exceptKernel

NextFilter ==
    \/ \E thresholds, relaxed \in Thresholds : StartFilter(thresholds, relaxed)
    \/ \E isMetrics \in MetricTuples, oosMetrics \in OosMetricTuples :
          FilterBranch(isMetrics, oosMetrics)

SpecFilter == Init /\ [][NextFilter]_vars

\* C27: a branch that passes the filter passes it with any minimum lowered or
\* maxDD raised, and the verdict is that of the predicate on the in-sample
\* metrics; passingBranches over the same branches does not decrease.
FilterMonotone ==
    kernel.run = "filter" =>
        /\ kernel.passingRelaxed >= kernel.passingBranches
        /\ kernel.passed # <<>> =>
              /\ kernel.passed[1] => kernel.passed[2]
              /\ kernel.passed[1] =
                    /\ kernel.isMetrics[1].TIM >= kernel.thresholds.minTIM
                    /\ kernel.isMetrics[1].TIMAR >= kernel.thresholds.minTIMAR
                    /\ -kernel.isMetrics[1].MaxDD <= kernel.thresholds.maxDD
                    /\ kernel.isMetrics[1].trades >= kernel.thresholds.minTrades
                    /\ kernel.isMetrics[1].TIMARDD >= kernel.thresholds.minTIMARDD

\* A branch that fails on its drawdown alone passes with maxDD raised, after a
\* branch that passed both; its out-of-sample metrics would pass neither
RelaxedPassesMore ==
    /\ kernel.run = "filter"
    /\ kernel.passingBranches = 1
    /\ kernel.passingRelaxed = 2
    /\ kernel.relaxed = [kernel.thresholds EXCEPT !.maxDD = @ + 1]
    /\ kernel.passed = <<FALSE, TRUE>>
    /\ ~Passes(kernel.oosMetrics[1], kernel.relaxed)

\* ---------------------------------------------------------------------------
\* The engine's kernels, from the design: Enumerator
\* ---------------------------------------------------------------------------

\* branches(config): the branches of every ticker, in the order of the tickers
RECURSIVE BranchesFrom(_, _)
BranchesFrom(cfg, k) ==
    IF k > Len(cfg.tickers) THEN <<>>
    ELSE TickerBranches(cfg, cfg.tickers[k]) \o BranchesFrom(cfg, k + 1)

EnumeratedBranches(cfg) == BranchesFrom(cfg, 1)

\* The enumerator runs over a config the server accepted, for a job on which
\* the server recorded its totalBranches
Enumerate(cfg) ==
    /\ kernel.run = "none"
    /\ kernel' = [run |-> "enumerate", config |-> cfg,
                  totalBranches |-> TotalBranches(cfg),
                  branches |-> EnumeratedBranches(cfg)]
    /\ UNCHANGED exceptKernel

NextEnumerate == \E cfg \in AllConfigs : Enumerate(cfg)

SpecEnumerate == Init /\ [][NextEnumerate]_vars

\* The combinations of a config: each ticker with each window of the period
\* range (none for a windowless family), each comparator and each threshold
\* of the threshold range
Combinations(cfg) ==
    {[ticker |-> cfg.tickers[k], indicator |-> cfg.indicator, period |-> p,
      comparator |-> c, threshold |-> t] :
        k \in 1..Len(cfg.tickers),
        p \in IF cfg.indicator \in WindowlessFamilies THEN {0}
              ELSE cfg.periodMin..cfg.periodMax,
        c \in IF cfg.comparator = "BOTH" THEN {"LT", "GT"} ELSE {cfg.comparator},
        t \in {x \in cfg.thresholdMin..cfg.thresholdMax :
                  /\ cfg.thresholdStep > 0
                  /\ (x - cfg.thresholdMin) % cfg.thresholdStep = 0}}

\* The place of a ticker in the config's list
TickerIndex(cfg, ticker) == CHOOSE k \in 1..Len(cfg.tickers) : cfg.tickers[k] = ticker

\* Branch a comes before branch b: ticker, then window, then LT before GT,
\* then threshold
Before(cfg, a, b) ==
    LET ka == TickerIndex(cfg, a.ticker)
        kb == TickerIndex(cfg, b.ticker)
        ca == IF a.comparator = "LT" THEN 0 ELSE 1
        cb == IF b.comparator = "LT" THEN 0 ELSE 1
    IN  \/ ka < kb
        \/ ka = kb /\ a.period < b.period
        \/ ka = kb /\ a.period = b.period /\ ca < cb
        \/ ka = kb /\ a.period = b.period /\ ca = cb /\ a.threshold < b.threshold

\* The enumerator yields every combination of the config once, in order
EnumeratesEachOnceInOrder ==
    kernel.run = "enumerate" =>
        /\ {kernel.branches[n] : n \in 1..Len(kernel.branches)} = Combinations(kernel.config)
        /\ \A n \in 1..(Len(kernel.branches) - 1) :
              Before(kernel.config, kernel.branches[n], kernel.branches[n + 1])

\* C28: the enumerator yields every (ticker, window, comparator, threshold)
\* combination of the config exactly once, totalBranches items in all, ticker
\* outermost, then window ascending, then LT before GT, then threshold
\* ascending.
EnumeratorYieldsTotalBranches ==
    kernel.run = "enumerate" =>
        /\ Len(kernel.branches) = kernel.totalBranches
        /\ EnumeratesEachOnceInOrder

\* The same for the configs with a windowed family that meet the constraints
\* of the job configuration
EnumeratorYieldsTotalOfWindowed ==
    (/\ kernel.run = "enumerate"
     /\ ValidConfig(kernel.config)
     /\ kernel.config.indicator \notin WindowlessFamilies)
        => /\ Len(kernel.branches) = kernel.totalBranches
           /\ EnumeratesEachOnceInOrder

\* ---------------------------------------------------------------------------
\* The engine's kernels, from the design: Scheduler and Aggregator
\* ---------------------------------------------------------------------------

MaxWorkers == 3

\* The configs of the scheduled jobs: one window and one threshold, so that a
\* ticker has one branch, or two with BOTH
ScheduleConfigs ==
    {cfg \in AllConfigs :
        /\ ValidConfig(cfg)
        /\ cfg.indicator = "RSI"
        /\ cfg.periodMin = 1 /\ cfg.periodMax = 1
        /\ cfg.thresholdMin = 0 /\ cfg.thresholdMax = 0 /\ cfg.thresholdStep = 1
        /\ cfg.comparator \in {"LT", "BOTH"}}

\* What a worker does with a branch: it errors (missing price file, degenerate
\* series, numeric anomaly), or the metrics are computed and the filter says
\* pass or fail
Outcomes == {"pass", "fail", "error"}

\* A worker that has not taken a ticker yet
IdleWorker == [state |-> "idle", ticker |-> 0, next |-> 0, tickers |-> <<>>, log |-> <<>>]

\* A worker's record of a branch: the filter is applied to a branch that did
\* not error
Processed(branch, outcome) ==
    [branch |-> branch, errored |-> outcome = "error",
     filtered |-> outcome # "error", passed |-> outcome = "pass"]

\* Counters that leave an errored branch out
CountedWithoutErrors(job, outcome) ==
    [job EXCEPT !.completedBranches = @ + (IF outcome = "error" THEN 0 ELSE 1),
                !.passingBranches = @ + (IF outcome = "pass" THEN 1 ELSE 0)]

\* The Aggregator's sums: every branch is completed, a passing one is passing
Counted(job, outcome) ==
    [job EXCEPT !.completedBranches = @ + 1,
                !.passingBranches = @ + (IF outcome = "pass" THEN 1 ELSE 0)]

\* The scheduler starts numWorkers workers on the tickers of a config
StartSchedule(cfg, numWorkers) ==
    /\ kernel.run = "none"
    /\ kernel' = [run |-> "schedule", config |-> cfg, queue |-> 1, cancelToken |-> FALSE,
                  status |-> "running", completedBranches |-> 0, passingBranches |-> 0,
                  workers |-> [w \in 1..numWorkers |-> IdleWorker]]
    /\ UNCHANGED exceptKernel

\* A worker that would take the ticker at the head without removing it
TakeTickerLeftInQueue(w) ==
    /\ kernel.run = "schedule"
    /\ w \in DOMAIN kernel.workers
    /\ kernel.status = "running"
    /\ kernel.workers[w].state = "idle"
    /\ kernel.queue <= Len(kernel.config.tickers)
    /\ Len(kernel.workers[w].tickers) < MaxTickers
    /\ kernel' = [kernel EXCEPT
          !.workers[w].state = "busy",
          !.workers[w].ticker = kernel.queue,
          !.workers[w].next = 1,
          !.workers[w].tickers = Append(@, kernel.queue)]
    /\ UNCHANGED exceptKernel

\* An idle worker takes the next ticker that no worker has taken
TakeTicker(w) ==
    /\ kernel.run = "schedule"
    /\ w \in DOMAIN kernel.workers
    /\ kernel.status = "running"
    /\ kernel.workers[w].state = "idle"
    /\ kernel.queue <= Len(kernel.config.tickers)
    /\ kernel' = [kernel EXCEPT
          !.queue = @ + 1,
          !.workers[w].state = "busy",
          !.workers[w].ticker = kernel.queue,
          !.workers[w].next = 1,
          !.workers[w].tickers = Append(@, kernel.queue)]
    /\ UNCHANGED exceptKernel

\* A worker processes the next branch of its ticker and goes on, whatever the
\* outcome; after the ticker's last branch it is idle again
ProcessBranch(w, outcome) ==
    /\ kernel.run = "schedule"
    /\ w \in DOMAIN kernel.workers
    /\ kernel.status = "running"
    /\ kernel.workers[w].state = "busy"
    /\ LET worker == kernel.workers[w]
           branches == TickerBranches(kernel.config, kernel.config.tickers[worker.ticker])
           last == worker.next = Len(branches)
       IN  kernel' = [Counted(kernel, outcome) EXCEPT
              !.workers[w].state = IF last THEN "idle" ELSE "busy",
              !.workers[w].next = IF last THEN 0 ELSE @ + 1,
              !.workers[w].ticker = IF last THEN 0 ELSE @,
              !.workers[w].log = Append(@, Processed(branches[worker.next], outcome))]
    /\ UNCHANGED exceptKernel

\* A worker with nothing left to take exits
WorkerExits(w) ==
    /\ kernel.run = "schedule"
    /\ w \in DOMAIN kernel.workers
    /\ kernel.status = "running"
    /\ kernel.workers[w].state = "idle"
    /\ kernel.queue > Len(kernel.config.tickers)
    /\ kernel' = [kernel EXCEPT !.workers[w].state = "exited"]
    /\ UNCHANGED exceptKernel

\* The cancel token is set
CancelSchedule ==
    /\ kernel.run = "schedule"
    /\ kernel.status = "running"
    /\ ~kernel.cancelToken
    /\ kernel' = [kernel EXCEPT !.cancelToken = TRUE]
    /\ UNCHANGED exceptKernel

\* A worker sees the token between two branches and exits
ExitOnCancel(w) ==
    /\ kernel.run = "schedule"
    /\ w \in DOMAIN kernel.workers
    /\ kernel.status = "running"
    /\ kernel.cancelToken
    /\ kernel.workers[w].state \in {"idle", "busy"}
    /\ kernel' = [kernel EXCEPT !.workers[w].state = "exited"]
    /\ UNCHANGED exceptKernel

\* A worker process crashes: the scheduler marks the job failed
WorkerCrash(w) ==
    /\ kernel.run = "schedule"
    /\ w \in DOMAIN kernel.workers
    /\ kernel.status = "running"
    /\ kernel.workers[w].state = "busy"
    /\ kernel' = [kernel EXCEPT !.workers[w].state = "crashed", !.status = "failed"]
    /\ UNCHANGED exceptKernel

\* The scheduler returns when all workers have exited
ScheduleReturns ==
    /\ kernel.run = "schedule"
    /\ kernel.status = "running"
    /\ \A w \in DOMAIN kernel.workers : kernel.workers[w].state = "exited"
    /\ kernel' = [kernel EXCEPT
          !.status = IF kernel.cancelToken THEN "cancelled" ELSE "completed"]
    /\ UNCHANGED exceptKernel

NextSchedule ==
    \/ \E cfg \in ScheduleConfigs, numWorkers \in 1..MaxWorkers :
          StartSchedule(cfg, numWorkers)
    \/ \E w \in 1..MaxWorkers : TakeTicker(w)
    \/ \E w \in 1..MaxWorkers, outcome \in Outcomes : ProcessBranch(w, outcome)
    \/ \E w \in 1..MaxWorkers : WorkerExits(w)
    \/ CancelSchedule
    \/ \E w \in 1..MaxWorkers : ExitOnCancel(w)
    \/ \E w \in 1..MaxWorkers : WorkerCrash(w)
    \/ ScheduleReturns

SpecSchedule == Init /\ [][NextSchedule]_vars

\* The tickers a worker has taken, and how often the workers processed a branch
Shard(w) == {kernel.workers[w].tickers[i] : i \in 1..Len(kernel.workers[w].tickers)}

TimesProcessed(branch) ==
    Cardinality({<<w, i>> \in (DOMAIN kernel.workers) \X (1..(MaxTickers * 2)) :
                    /\ i <= Len(kernel.workers[w].log)
                    /\ kernel.workers[w].log[i].branch = branch})

BranchSet(cfg) == {EnumeratedBranches(cfg)[n] : n \in 1..Len(EnumeratedBranches(cfg))}

\* C29: no ticker is taken by two workers or twice, so no branch is processed
\* twice; when the job completes, neither cancelled nor crashed, every ticker
\* is in one shard and every branch has been processed once, and at least as
\* many workers as exceed the tickers have processed nothing.
ShardsDisjointAndCovering ==
    kernel.run = "schedule" =>
        /\ \A w, v \in DOMAIN kernel.workers : w # v => Shard(w) \cap Shard(v) = {}
        /\ \A w \in DOMAIN kernel.workers :
              Cardinality(Shard(w)) = Len(kernel.workers[w].tickers)
        /\ \A branch \in BranchSet(kernel.config) : TimesProcessed(branch) <= 1
        /\ kernel.status = "completed" =>
              /\ \A k \in 1..Len(kernel.config.tickers) :
                    \E w \in DOMAIN kernel.workers : k \in Shard(w)
              /\ \A branch \in BranchSet(kernel.config) : TimesProcessed(branch) = 1
              /\ Cardinality({w \in DOMAIN kernel.workers : kernel.workers[w].log = <<>>})
                     >= Cardinality(DOMAIN kernel.workers) - Len(kernel.config.tickers)

\* A completed job of two tickers and three workers: two workers took a ticker
\* each, the third processed nothing
ThirdWorkerIdle ==
    /\ kernel.run = "schedule"
    /\ kernel.status = "completed"
    /\ Len(kernel.config.tickers) = 2
    /\ Cardinality(DOMAIN kernel.workers) = 3
    /\ Cardinality({w \in DOMAIN kernel.workers : kernel.workers[w].log # <<>>}) = 2

\* The branches the workers have recorded
Records ==
    {<<w, i>> \in (DOMAIN kernel.workers) \X (1..(MaxTickers * 2)) :
        i <= Len(kernel.workers[w].log)}

\* C30: an errored branch is counted in completedBranches and not in
\* passingBranches, the filter is not applied to it, and the job fails only
\* when a worker crashed: a completed job has processed all its branches,
\* errored ones among them.
ErroredBranchesCompleted ==
    kernel.run = "schedule" =>
        /\ kernel.completedBranches = Cardinality(Records)
        /\ kernel.passingBranches =
              Cardinality({r \in Records : kernel.workers[r[1]].log[r[2]].passed})
        /\ \A r \in Records :
              kernel.workers[r[1]].log[r[2]].errored =>
                  /\ ~kernel.workers[r[1]].log[r[2]].filtered
                  /\ ~kernel.workers[r[1]].log[r[2]].passed
        /\ kernel.status = "failed" =>
              \E w \in DOMAIN kernel.workers : kernel.workers[w].state = "crashed"
        /\ kernel.status = "completed" =>
              kernel.completedBranches = Len(EnumeratedBranches(kernel.config))

\* A completed job whose first branch errored and whose later branch passed
CompletedAfterError ==
    /\ kernel.run = "schedule"
    /\ kernel.status = "completed"
    /\ kernel.completedBranches = 2
    /\ kernel.passingBranches = 1
    /\ \E w \in DOMAIN kernel.workers :
          /\ Len(kernel.workers[w].log) = 2
          /\ kernel.workers[w].log[1].errored
          /\ kernel.workers[w].log[2].passed

\* ---------------------------------------------------------------------------
\* The engine's kernels, from the design: MetricsKernel
\* ---------------------------------------------------------------------------

\* The daily returns of the model, in percent
Returns == {-100, -50, 0, 100}

RECURSIVE Power2(_)
Power2(n) == IF n = 0 THEN 1 ELSE 2 * Power2(n - 1)

RECURSIVE Held(_, _)
Held(signal, i) ==
    IF i > Len(signal) THEN 0 ELSE (IF signal[i] THEN 1 ELSE 0) + Held(signal, i + 1)

\* The last value of the equity curve, E[i] = E[i-1] * (1 + stratRet[i]) with
\* stratRet[i] = signal[i] * returns[i], as a multiple of 1 / 2^Len: every
\* factor 1 + r/100 of the model is a multiple of 1/2
RECURSIVE EquityFrom(_, _, _)
EquityFrom(signal, returns, i) ==
    IF i > Len(signal) THEN 1
    ELSE (IF signal[i] THEN (100 + returns[i]) \div 50 ELSE 2)
             * EquityFrom(signal, returns, i + 1)

\* A ratio num / den with den > 0
Ratio(num, den) == [num |-> num, den |-> den]

\* TIM = 100 * (sum of signal) / (count of bars)
Tim(signal) == Ratio(100 * Held(signal, 1), Len(signal))

\* CAGR = E_final ^ (1 / Y) - 1 over a series that spans one year, and 0 when
\* E_final <= 0
Cagr(signal, returns) ==
    LET final == EquityFrom(signal, returns, 1)
        one == Power2(Len(signal))
    IN  IF final <= 0 THEN Ratio(0, 1) ELSE Ratio(final - one, one)

\* A TIMAR that is computed only for a signal that is always in the market
TimarWhenAlwaysIn(tim, cagr) ==
    IF tim.num >= 100 * tim.den
    THEN Ratio(100 * cagr.num * tim.den, cagr.den * tim.num)
    ELSE Ratio(0, 1)

\* TIMAR = 100 * CAGR / TIM when TIM > 0, else 0
Timar(tim, cagr) ==
    IF tim.num > 0
    THEN Ratio(100 * cagr.num * tim.den, cagr.den * tim.num)
    ELSE Ratio(0, 1)

\* compute(signal, stratReturns, mask), as far as TIM, CAGR and TIMAR go
Compute(signal, returns) ==
    [run |-> "metrics", signal |-> signal, returns |-> returns,
     TIM |-> Tim(signal), CAGR |-> Cagr(signal, returns),
     TIMAR |-> Timar(Tim(signal), Cagr(signal, returns))]

\* The kernel runs over the first bar of a series
StartMetrics(held, return) ==
    /\ kernel.run = "none"
    /\ kernel' = Compute(<<held>>, <<return>>)
    /\ UNCHANGED exceptKernel

\* One more bar; the kernel runs over the whole series
NextReturn(held, return) ==
    /\ kernel.run = "metrics"
    /\ Len(kernel.signal) < MaxBars
    /\ kernel' = Compute(Append(kernel.signal, held), Append(kernel.returns, return))
    /\ UNCHANGED exceptKernel

NextMetrics ==
    \/ \E held \in BOOLEAN, return \in Returns : StartMetrics(held, return)
    \/ \E held \in BOOLEAN, return \in Returns : NextReturn(held, return)

SpecMetrics == Init /\ [][NextMetrics]_vars

\* C31: in every tuple the kernel emits, TIMAR = 0 if and only if TIM = 0.
TimarZeroIffTimZero ==
    kernel.run = "metrics" => (kernel.TIMAR.num = 0 <=> kernel.TIM.num = 0)

\* C31, as it holds: TIMAR = 0 if and only if TIM = 0 or CAGR = 0, and TIMAR is
\* 100 * CAGR / TIM when TIM > 0.
TimarZeroIffTimOrCagrZero ==
    kernel.run = "metrics" =>
        /\ kernel.TIMAR.num = 0 <=> (kernel.TIM.num = 0 \/ kernel.CAGR.num = 0)
        /\ kernel.TIM.num = 0 => kernel.CAGR.num = 0
        /\ kernel.TIM.num > 0 =>
              kernel.TIMAR.num * kernel.CAGR.den * kernel.TIM.num
                  = 100 * kernel.CAGR.num * kernel.TIM.den * kernel.TIMAR.den

\* A signal that was in the market on a bar that doubled the equity, and whose
\* equity still ends where it began or at nothing: TIM > 0 and TIMAR = 0
InMarketWithoutGrowth ==
    /\ kernel.run = "metrics"
    /\ kernel.TIM.num > 0
    /\ \E i \in 1..Len(kernel.signal) : kernel.signal[i] /\ kernel.returns[i] = 100
    /\ kernel.CAGR.num = 0
    /\ kernel.TIMAR.num = 0

\* ---------------------------------------------------------------------------
\* routes/data.mjs: the batch downloads
\* ---------------------------------------------------------------------------

MaxSyncs == 3

\* The requests that asked for a download, in the order they arrived
Downloads == 1..Len(sync.downloads)

\* A request, as the handler found it: whether isRunning was set when it
\* arrived, and where the download stands
Download(source, wasRunning, state) ==
    [source |-> source, wasRunning |-> wasRunning, state |-> state]

\* POST /registry/sync has filled the ticker registry
RegistrySynced ==
    /\ sync.registry = 0
    /\ sync' = [sync EXCEPT !.registry = 1]
    /\ UNCHANGED exceptSync

\* POST /tiingo-key
TiingoKeySet ==
    /\ ~sync.tiingoApiKey
    /\ sync' = [sync EXCEPT !.tiingoApiKey = TRUE]
    /\ UNCHANGED exceptSync

\* POST /sync/yfinance up to its await of getTickerRegistry
SyncYfinance ==
    /\ Len(sync.downloads) < MaxSyncs
    /\ sync' =
          IF sync.isRunning
          THEN [sync EXCEPT
                  !.downloads = Append(@, Download("yfinance", TRUE, "refused")),
                  !.response = [status |-> 400, error |-> "Download already in progress"]]
          ELSE [sync EXCEPT !.downloads = Append(@, Download("yfinance", FALSE, "waiting"))]
    /\ UNCHANGED exceptSync

\* POST /sync/yfinance after the await: getTickerRegistry threw (the catch), the
\* registry is empty, or the download starts and runBatchDownload spawns the
\* child process
RegistryRead(d, threw) ==
    /\ d \in Downloads
    /\ sync.downloads[d].state = "waiting"
    /\ sync' =
          IF threw
          THEN [sync EXCEPT !.isRunning = FALSE, !.currentJob = 0,
                            !.downloads[d].state = "refused",
                            !.response = [status |-> 500, error |-> "error.message"]]
          ELSE IF sync.registry = 0
          THEN [sync EXCEPT !.downloads[d].state = "refused",
                            !.response = [status |-> 400, error |-> "No tickers in registry"]]
          ELSE [sync EXCEPT !.isRunning = TRUE, !.currentJob = d, !.syncedCount = 0,
                            !.currentProcess = d,
                            !.downloads[d].state = "alive",
                            !.response = [status |-> 200, error |-> ""]]
    /\ UNCHANGED exceptSync

\* POST /sync/tiingo: the download is a timer of two seconds
SyncTiingo ==
    /\ Len(sync.downloads) < MaxSyncs
    /\ sync' =
          IF sync.isRunning
          THEN [sync EXCEPT
                  !.downloads = Append(@, Download("tiingo", TRUE, "refused")),
                  !.response = [status |-> 400, error |-> "Download already in progress"]]
          ELSE IF ~sync.tiingoApiKey
          THEN [sync EXCEPT
                  !.downloads = Append(@, Download("tiingo", FALSE, "refused")),
                  !.response = [status |-> 400, error |-> "Tiingo API key not configured"]]
          ELSE [sync EXCEPT
                  !.isRunning = TRUE, !.currentJob = Len(sync.downloads) + 1,
                  !.syncedCount = 0,
                  !.downloads = Append(@, Download("tiingo", FALSE, "timer")),
                  !.response = [status |-> 200, error |-> ""]]
    /\ UNCHANGED exceptSync

\* The timer of a Tiingo download fires, whether the download was stopped or not
TiingoTimer(d) ==
    /\ d \in Downloads
    /\ sync.downloads[d].state \in {"timer", "stopped"}
    /\ sync' = [sync EXCEPT !.isRunning = FALSE, !.currentJob = 0,
                            !.lastSync.tiingo = "success",
                            !.downloads[d].state = "closed"]
    /\ UNCHANGED exceptSync

\* POST /sync/stop: the current process is sent the signal; the timer of a
\* Tiingo download stays
SyncStop ==
    /\ sync' = [sync EXCEPT
          !.downloads = [i \in Downloads |->
                            IF i = sync.currentProcess /\ sync.downloads[i].state = "alive"
                            THEN [sync.downloads[i] EXCEPT !.state = "killed"]
                            ELSE IF sync.downloads[i].state = "timer"
                            THEN [sync.downloads[i] EXCEPT !.state = "stopped"]
                            ELSE sync.downloads[i]],
          !.currentProcess = 0,
          !.isRunning = FALSE,
          !.currentJob = 0,
          !.response = [status |-> 200, error |-> ""]]
    /\ UNCHANGED exceptSync

\* A PROGRESS line on the process's stdout: the counts go to currentJob, when
\* there is one
DownloadProgress(d) ==
    /\ d \in Downloads
    /\ sync.downloads[d].state = "alive"
    /\ sync.currentJob # 0
    /\ sync.syncedCount = 0
    /\ sync' = [sync EXCEPT !.syncedCount = 1]
    /\ UNCHANGED exceptSync

\* The close event of a process, up to its await of setLastSyncState
DownloadClose(d, code) ==
    /\ d \in Downloads
    /\ sync.downloads[d].state \in {"alive", "killed"}
    /\ code = 0 => sync.downloads[d].state = "alive"
    /\ sync' = [sync EXCEPT
          !.isRunning = FALSE,
          !.lastSync.yfinance = IF code = 0 THEN "success" ELSE "error",
          !.downloads[d].state = "closing"]
    /\ UNCHANGED exceptSync

\* The close handler after the await
DownloadClosed(d) ==
    /\ d \in Downloads
    /\ sync.downloads[d].state = "closing"
    /\ sync' = [sync EXCEPT !.currentJob = 0, !.currentProcess = 0,
                            !.downloads[d].state = "closed"]
    /\ UNCHANGED exceptSync

NextSync ==
    \/ RegistrySynced
    \/ TiingoKeySet
    \/ SyncYfinance
    \/ \E d \in 1..MaxSyncs, threw \in BOOLEAN : RegistryRead(d, threw)
    \/ SyncTiingo
    \/ \E d \in 1..MaxSyncs : TiingoTimer(d)
    \/ SyncStop
    \/ \E d \in 1..MaxSyncs : DownloadProgress(d)
    \/ \E d \in 1..MaxSyncs, code \in {0, 1} : DownloadClose(d, code)
    \/ \E d \in 1..MaxSyncs : DownloadClosed(d)

SpecSync == Init /\ [][NextSync]_vars

\* The child processes that run and have not been sent a signal
Alive == {d \in Downloads : sync.downloads[d].state = "alive"}

\* The downloads that have started and have neither finished nor been stopped
Unfinished == {d \in Downloads : sync.downloads[d].state \in {"alive", "timer"}}

\* C32: a request that finds a download running is answered 400 and starts
\* nothing, and two download child processes are never alive together.
OneDownloadAtATime ==
    /\ \A d \in Downloads :
          sync.downloads[d].wasRunning => sync.downloads[d].state = "refused"
    /\ Cardinality(Alive) <= 1

\* C33: isRunning, currentJob and currentProcess describe the most recently
\* started download that has neither finished nor been stopped, and isRunning
\* is true whenever a download child process is alive.
SyncStateDescribesLatest ==
    /\ \A d \in Alive : sync.isRunning
    /\ \A d \in Unfinished :
          (\A e \in Unfinished : e <= d) =>
              /\ sync.isRunning
              /\ sync.currentJob = d
              /\ sync.downloads[d].state = "alive" => sync.currentProcess = d

\* ---------------------------------------------------------------------------
\* routes/forge.mjs: the answers of POST /cancel/:jobId
\* ---------------------------------------------------------------------------

MaxCancels == 1

\* POST /cancel/:jobId with its answer recorded: success at once when the job
\* is not in activeJobs (forge.mjs 299, 324), and after the await otherwise
CancelAnswered(j) ==
    /\ reply.n < MaxCancels
    /\ reply' = [n |-> reply.n + 1, jobId |-> j, active |-> j \in activeJobs,
                 status |-> IF j \in activeJobs THEN 0 ELSE 200]
    /\ UNCHANGED <<uiVars, storageVars, cacheVars, authVars, kernelVars, syncVars, hookVars>>
    /\ CancelHandlerBody(j)

\* The server with one job, and cancel requests for that job and for an id
\* that no job has
NextCancel ==
    \/ StartRequest
    \/ \E j \in JobIds : StartSpawn(j)
    \/ EngineProgress
    \/ \E j \in JobIds, k \in 1..MaxTickers : ProgressSaved(j, k)
    \/ EngineClose
    \/ \E j \in JobIds : CloseSaved(j)
    \/ \E j \in JobIds : CloseFinish(j)
    \/ \E j \in JobIds : CancelAnswered(j)
    \/ \E j \in JobIds : CancelFinish(j)
    \/ \E c \in 1..MaxClients, j \in 1..MaxJobs : Stream(c, j)
    \/ \E c \in Clients : StreamInitial(c)
    \/ \E c \in 1..MaxClients : Disconnect(c)

SpecCancel == Init /\ [][NextCancel]_vars

\* C34: a cancel request for a job that is not in activeJobs changes no job
\* record, kills no process, writes to no stream, and is answered success.
InactiveCancelChangesNothing ==
    [][(reply'.n # reply.n /\ ~reply'.active) =>
          /\ reply'.status = 200
          /\ UNCHANGED <<jobs, results, proc, activeJobs, sseClients, inbox, ended,
                         cancelWait, disk, saves>>]_vars

\* A cancel request, answered success, for a job that had reached a terminal
\* status and had been removed from activeJobs
CancelledAfterRemoval ==
    /\ reply.n > 0
    /\ ~reply.active
    /\ reply.status = 200
    /\ FindJob(reply.jobId) # 0
    /\ JobOf(reply.jobId).status \in {"completed", "failed", "cancelled"}
    /\ reply.jobId \notin activeJobs

\* ---------------------------------------------------------------------------
\* useForgeJob.ts: api calls that reject
\* ---------------------------------------------------------------------------

MaxCalls == 3

\* The calls of startJob and cancelJob that wait for their api promise
Pending == IF hook.name = "none" THEN {} ELSE hook.calls

\* The hook mounts: the mount effect restores what localStorage holds
\* (useForgeJob.ts 40-53)
MountForgeJob(item) ==
    /\ hook.name = "none"
    /\ hook' = [name |-> "useForgeJob",
                job |-> IF item.stored
                        THEN [jobId |-> item.jobId, running |-> TRUE,
                              startTime |-> item.startTime]
                        ELSE NoJob,
                item |-> item, calls |-> {}, made |-> 0, started |-> 0,
                rejected |-> 0, thrown |-> 0]
    /\ UNCHANGED exceptHook

\* startJob up to its await (useForgeJob.ts 56-59)
StartJobCalled ==
    /\ hook.name = "useForgeJob"
    /\ hook.made < MaxCalls
    /\ hook' = [hook EXCEPT !.made = hook.made + 1,
                            !.calls = hook.calls \cup
                               {[id |-> hook.made + 1, kind |-> "start", jobId |-> 0]}]
    /\ UNCHANGED exceptHook

\* api.forge.start resolved (useForgeJob.ts 60-68): the server's next job id,
\* Date.now(), the three setters and saveActiveJob
StartJobResolves(pending) ==
    /\ hook.name = "useForgeJob"
    /\ pending \in Pending /\ pending.kind = "start"
    /\ LET newJobId == hook.started + 1
           now == hook.made
       IN  hook' = [hook EXCEPT !.calls = hook.calls \ {pending},
                                !.started = newJobId,
                                !.job = [jobId |-> newJobId, running |-> TRUE,
                                         startTime |-> now],
                                !.item = SaveActiveJob(newJobId, now)]
    /\ UNCHANGED exceptHook

\* api.forge.start rejected: fetch failed, or handleResponse threw on a
\* response that is not ok (part_011 7-18); the catch logs and rethrows
\* (useForgeJob.ts 69-72)
StartJobRejects(pending) ==
    /\ hook.name = "useForgeJob"
    /\ pending \in Pending /\ pending.kind = "start"
    /\ hook' = [hook EXCEPT !.calls = hook.calls \ {pending},
                            !.rejected = hook.rejected + 1,
                            !.thrown = hook.thrown + 1]
    /\ UNCHANGED exceptHook

\* cancelJob up to its await (useForgeJob.ts 78-82): nothing without a jobId
CancelJobCalled ==
    /\ hook.name = "useForgeJob"
    /\ hook.made < MaxCalls
    /\ hook.job.jobId # 0
    /\ hook' = [hook EXCEPT !.made = hook.made + 1,
                            !.calls = hook.calls \cup
                               {[id |-> hook.made + 1, kind |-> "cancel",
                                 jobId |-> hook.job.jobId]}]
    /\ UNCHANGED exceptHook

\* api.forge.cancel resolved (useForgeJob.ts 83-90)
CancelJobResolves(pending) ==
    /\ hook.name = "useForgeJob"
    /\ pending \in Pending /\ pending.kind = "cancel"
    /\ hook' = [hook EXCEPT !.calls = hook.calls \ {pending},
                            !.job = NoJob,
                            !.item = NoItem]
    /\ UNCHANGED exceptHook

\* A cancelJob that would clear the state whether or not the call succeeded
CancelJobRejectsCleared(pending) ==
    /\ hook.name = "useForgeJob"
    /\ pending \in Pending /\ pending.kind = "cancel"
    /\ hook' = [hook EXCEPT !.calls = hook.calls \ {pending},
                            !.rejected = hook.rejected + 1,
                            !.thrown = hook.thrown + 1,
                            !.job = NoJob,
                            !.item = NoItem]
    /\ UNCHANGED exceptHook

\* api.forge.cancel rejected: the catch logs and rethrows (useForgeJob.ts 91-94)
CancelJobRejects(pending) ==
    /\ hook.name = "useForgeJob"
    /\ pending \in Pending /\ pending.kind = "cancel"
    /\ hook' = [hook EXCEPT !.calls = hook.calls \ {pending},
                            !.rejected = hook.rejected + 1,
                            !.thrown = hook.thrown + 1]
    /\ UNCHANGED exceptHook

\* completeJob (useForgeJob.ts 98-101)
HookCompleteJob ==
    /\ hook.name = "useForgeJob"
    /\ hook.job.running
    /\ hook' = [hook EXCEPT !.job.running = FALSE, !.item = NoItem]
    /\ UNCHANGED exceptHook

NextHook ==
    \/ \E item \in {NoItem, SaveActiveJob(1, 1)} : MountForgeJob(item)
    \/ StartJobCalled
    \/ \E pending \in Pending : StartJobResolves(pending)
    \/ \E pending \in Pending : StartJobRejects(pending)
    \/ CancelJobCalled
    \/ \E pending \in Pending : CancelJobResolves(pending)
    \/ \E pending \in Pending : CancelJobRejects(pending)
    \/ HookCompleteJob

SpecHook == Init /\ [][NextHook]_vars

\* C35: when the api call of startJob or cancelJob rejects, jobId, running,
\* startTime and the stored active-job item stay as they were, and the error
\* is thrown to the caller.
RejectedCallChangesNothing ==
    [][(hook.name = "useForgeJob" /\ hook'.rejected # hook.rejected) =>
          /\ hook'.job = hook.job
          /\ hook'.item = hook.item
          /\ hook'.thrown = hook.thrown + 1]_vars

\* A cancel and a start were rejected while a job was running and stored
RejectedWhileRunning ==
    /\ hook.name = "useForgeJob"
    /\ hook.rejected >= 2
    /\ hook.thrown = hook.rejected
    /\ hook.started > 0
    /\ hook.job.running /\ hook.job.jobId = hook.started
    /\ hook.item = SaveActiveJob(hook.job.jobId, hook.job.startTime)

\* ---------------------------------------------------------------------------
\* useForgeStream (part_008): the debug log
\* ---------------------------------------------------------------------------

\* newLog.slice(-50)
KeepLast == 50

MaxEvents == 52
MaxFailures == 1
MaxJobChanges == 2

\* array.slice(-n): the last n elements, all of them when there are fewer
SliceLast(array, n) ==
    IF Len(array) <= n THEN array ELSE SubSeq(array, Len(array) - n + 1, Len(array))

\* An entry of the log: when it was written, and what it says
Entry(kind) == [at |-> hook.events + 1, kind |-> kind]

\* The first render and its effect without a job (part_008 32-40)
MountForgeStream ==
    /\ hook.name = "none"
    /\ hook' = [name |-> "useForgeStream", jobId |-> 0, debugLog |-> <<>>,
                open |-> FALSE, events |-> 0, failures |-> 0, changes |-> 0]
    /\ UNCHANGED exceptHook

\* jobId changed: the cleanup of the last effect closes its source, and the
\* effect runs again; it empties the log only when there is no job
\* (part_008 35-44, 106-110)
JobIdChanges(jobId) ==
    /\ hook.name = "useForgeStream"
    /\ jobId # hook.jobId
    /\ hook.changes < MaxJobChanges
    /\ hook' = [hook EXCEPT !.jobId = jobId,
                            !.changes = hook.changes + 1,
                            !.open = jobId # 0,
                            !.debugLog = IF jobId = 0 THEN <<>> ELSE hook.debugLog]
    /\ UNCHANGED exceptHook

\* eventSource.onmessage (part_008 46-71): a message that parses is appended
\* and the last KeepLast entries are kept, and a terminal status closes the
\* source; one that does not parse is appended by the catch
OnMessage(parses, terminal) ==
    /\ hook.name = "useForgeStream"
    /\ hook.open
    /\ hook.events < MaxEvents
    /\ ~parses => ~terminal /\ hook.failures < MaxFailures
    /\ hook' = [hook EXCEPT
                  !.events = hook.events + 1,
                  !.failures = IF parses THEN hook.failures ELSE hook.failures + 1,
                  !.open = ~terminal,
                  !.debugLog = IF parses
                               THEN SliceLast(Append(hook.debugLog, Entry("message")), KeepLast)
                               ELSE Append(hook.debugLog, Entry("parse failed"))]
    /\ UNCHANGED exceptHook

\* eventSource.onerror (part_008 73-79): the entry is appended and the source
\* is closed
OnError ==
    /\ hook.name = "useForgeStream"
    /\ hook.open
    /\ hook.events < MaxEvents
    /\ hook' = [hook EXCEPT !.events = hook.events + 1,
                            !.open = FALSE,
                            !.debugLog = Append(hook.debugLog, Entry("connection failed"))]
    /\ UNCHANGED exceptHook

NextDebugLog ==
    \/ MountForgeStream
    \/ \E jobId \in 0..2 : JobIdChanges(jobId)
    \/ \E parses \in BOOLEAN, terminal \in BOOLEAN : OnMessage(parses, terminal)
    \/ OnError

SpecDebugLog == Init /\ [][NextDebugLog]_vars

\* C36: the debug log never holds more than 50 entries, after any sequence of
\* messages, parse failures and connection errors.
DebugLogAtMostFifty ==
    hook.name = "useForgeStream" => Len(hook.debugLog) <= KeepLast

\* ---------------------------------------------------------------------------
\* useProgressMetrics.ts
\* ---------------------------------------------------------------------------

MaxElapsed == 7
MaxTotal == 3

\* The values of JavaScript the hook computes with
Missing == [kind |-> "undefined", v |-> 0]
NotANumber == [kind |-> "NaN", v |-> 0]
Unbounded == [kind |-> "Infinity", v |-> 0]
Num(n) == [kind |-> "finite", v |-> n]

\* status.name, undefined on a status without the property and on null
Get(status, name) == IF name \in DOMAIN status THEN Num(status[name]) ELSE Missing

\* Math.round of n / d for integers, d # 0: halves go up
RoundHalfUp(n, d) ==
    IF d > 0 THEN (2 * n + d) \div (2 * d) ELSE (d - 2 * n) \div (2 * (0 - d))

\* Math.round(a / b * scale): NaN when an operand is undefined or NaN
RoundRatio(a, b, scale) ==
    IF a.kind # "finite" \/ b.kind # "finite" THEN NotANumber
    ELSE IF b.v = 0 THEN (IF a.v = 0 THEN NotANumber ELSE Unbounded)
    ELSE Num(RoundHalfUp(a.v * scale, b.v))

\* a - b
Minus(a, b) ==
    IF a.kind # "finite" \/ b.kind # "finite" THEN NotANumber ELSE Num(a.v - b.v)

\* The callbacks of the three useMemo (useProgressMetrics.ts 62-79)
Progress(status) ==
    IF status.status = "null" \/ Get(status, "totalBranches") = Num(0) THEN Num(0)
    ELSE RoundRatio(Get(status, "completedBranches"), Get(status, "totalBranches"), 100)

Speed(status, elapsed) ==
    IF status.status = "null" \/ elapsed = 0 THEN Num(0)
    ELSE RoundRatio(Get(status, "completedBranches"), Num(elapsed), 1)

Eta(status, speed) ==
    IF status.status = "null" \/ speed = Num(0) THEN Num(0)
    ELSE RoundRatio(Minus(Get(status, "totalBranches"), Get(status, "completedBranches")),
                    speed, 1)

\* One render: a useMemo calls its callback when a dependency changed
Render(h, status, elapsed) ==
    LET progressDeps == <<Get(status, "completedBranches"), Get(status, "totalBranches")>>
        speedDeps == <<Get(status, "completedBranches"), elapsed>>
        speed == IF speedDeps = h.speedDeps THEN h.speed ELSE Speed(status, elapsed)
        etaDeps == <<Get(status, "totalBranches"), Get(status, "completedBranches"), speed>>
    IN  [h EXCEPT !.status = status, !.elapsed = elapsed,
                  !.progress = IF progressDeps = h.progressDeps THEN h.progress
                               ELSE Progress(status),
                  !.progressDeps = progressDeps,
                  !.speed = speed, !.speedDeps = speedDeps,
                  !.eta = IF etaDeps = h.etaDeps THEN h.eta ELSE Eta(status, speed),
                  !.etaDeps = etaDeps]

\* The statuses the stream and the poll deliver (forge.mjs 114-120, 150-154,
\* 216-223, 312-315; part_008 88-94)
StatusValues ==
    {ProgressMessage(1, pair[1], pair[2], pair[2]) :
        pair \in {p \in (0..MaxTotal) \X (0..MaxTotal) : p[2] <= p[1]}}
    \cup {CompletedMessage(1, total, total) : total \in 0..MaxTotal}
    \cup {FailedMessage(1, "1"), CancelledMessage(1)}

\* The first render of the dashboard with a job started and no status yet:
\* every useMemo calls its callback
MountProgressMetrics ==
    /\ hook.name = "none"
    /\ hook' = [name |-> "useProgressMetrics", status |-> NullStatus, clock |-> 0,
                elapsed |-> 0,
                progress |-> Progress(NullStatus),
                progressDeps |-> <<Missing, Missing>>,
                speed |-> Speed(NullStatus, 0), speedDeps |-> <<Missing, 0>>,
                eta |-> Eta(NullStatus, Num(0)),
                etaDeps |-> <<Missing, Missing, Num(0)>>]
    /\ UNCHANGED exceptHook

\* A status arrives: the render with it, then the timer effect sets elapsed and
\* the hook renders again (useProgressMetrics.ts 40-60)
StatusArrives(status) ==
    /\ hook.name = "useProgressMetrics"
    /\ hook' = Render(Render(hook, status, hook.elapsed), status, hook.clock)
    /\ UNCHANGED exceptHook

\* A second passes; the interval sets elapsed while there is a status
SecondPasses ==
    /\ hook.name = "useProgressMetrics"
    /\ hook.clock < MaxElapsed
    /\ hook' = IF hook.status.status = "null"
               THEN [hook EXCEPT !.clock = hook.clock + 1]
               ELSE Render([hook EXCEPT !.clock = hook.clock + 1], hook.status,
                           hook.clock + 1)
    /\ UNCHANGED exceptHook

NextProgress ==
    \/ MountProgressMetrics
    \/ \E status \in StatusValues : StatusArrives(status)
    \/ SecondPasses

SpecProgress == Init /\ [][NextProgress]_vars

\* C37: for every status delivered, the terminal failed and cancelled events
\* included, progress, speed and eta are integers, none is NaN or infinite,
\* and progress lies between 0 and 100.
ProgressMetricsAreNumbers ==
    hook.name = "useProgressMetrics" =>
       /\ hook.progress.kind = "finite"
       /\ hook.speed.kind = "finite"
       /\ hook.eta.kind = "finite"
       /\ hook.progress.v \in 0..100

\* ---------------------------------------------------------------------------
\* useJobsManagement.ts
\* ---------------------------------------------------------------------------

MaxLoads == 4
MaxSelections == 2
MaxListed == 2

\* jobList.find((j) => j.status === 'completed'): the id of the first
\* completed job of the list, 0 when there is none
FirstCompleted(jobList) ==
    IF \E i \in 1..Len(jobList) : jobList[i].status = "completed"
    THEN jobList[CHOOSE i \in 1..Len(jobList) :
                    /\ jobList[i].status = "completed"
                    /\ \A k \in 1..(i - 1) : jobList[k].status # "completed"].id
    ELSE 0

\* loadJobs up to its await (useJobsManagement.ts 42-47): the call keeps the
\* selectedJobId of the render that made the callback
LoadStarted(h, selectedJobId) ==
    [h EXCEPT !.loading = TRUE, !.error = FALSE, !.started = h.started + 1,
              !.loads = h.loads \cup {[id |-> h.started + 1, at |-> h.events,
                                       selectedJobId |-> selectedJobId]}]

\* A render after selectedJobId changed makes a new loadJobs, and the effect
\* calls it (useJobsManagement.ts 65-70)
Selected(h, jobId, by, startedAt) ==
    IF jobId = h.selectedJobId THEN h
    ELSE LoadStarted([h EXCEPT !.selectedJobId = jobId,
                               !.events = h.events + 1,
                               !.chosen = [by |-> by, at |-> h.events + 1,
                                           startedAt |-> startedAt,
                                           over |-> [by |-> h.chosen.by,
                                                     at |-> h.chosen.at,
                                                     jobId |-> h.selectedJobId]]],
                     jobId)

\* The first render and its effect (useJobsManagement.ts 36-40, 68-70)
MountJobsManagement ==
    /\ hook.name = "none"
    /\ hook' = LoadStarted([name |-> "useJobsManagement", jobs |-> <<>>,
                            selectedJobId |-> 0, loading |-> FALSE, error |-> FALSE,
                            loads |-> {}, started |-> 0, events |-> 0, selections |-> 0,
                            server |-> [j \in 1..MaxListed |->
                                          [id |-> j, status |-> "running"]],
                            chosen |-> [by |-> "none", at |-> 0, startedAt |-> 0,
                                        over |-> [by |-> "none", at |-> 0, jobId |-> 0]]],
                           0)
    /\ UNCHANGED exceptHook

\* A job of the server reaches a status
JobReaches(j, status) ==
    /\ hook.name = "useJobsManagement"
    /\ hook.server[j].status = "running"
    /\ hook' = [hook EXCEPT !.server[j].status = status]
    /\ UNCHANGED exceptHook

\* refetch: loadJobs of the last render is called again
Refetch ==
    /\ hook.name = "useJobsManagement"
    /\ hook.started < MaxLoads
    /\ hook' = LoadStarted(hook, hook.selectedJobId)
    /\ UNCHANGED exceptHook

\* setSelectedJobId: the user chooses a listed job, or none
UserSelects(jobId) ==
    /\ hook.name = "useJobsManagement"
    /\ hook.selections < MaxSelections
    /\ hook.started < MaxLoads
    /\ jobId # hook.selectedJobId
    /\ jobId = 0 \/ \E i \in 1..Len(hook.jobs) : hook.jobs[i].id = jobId
    /\ hook' = Selected([hook EXCEPT !.selections = hook.selections + 1], jobId, "user", 0)
    /\ UNCHANGED exceptHook

\* loadJobs after api.results.getJobs resolved (useJobsManagement.ts 47-58,
\* 62-64): the list is stored, and the first completed job is selected when the
\* selectedJobId the call kept is null
LoadJobsResolves(load) ==
    /\ hook.name = "useJobsManagement"
    /\ load \in hook.loads
    /\ LET jobList == hook.server
           firstCompleted == FirstCompleted(jobList)
           listed == [hook EXCEPT !.jobs = jobList, !.loading = FALSE,
                                  !.loads = hook.loads \ {load}]
       IN  /\ (load.selectedJobId = 0 /\ firstCompleted \notin {0, hook.selectedJobId})
                 => hook.started < MaxLoads
           /\ hook' = IF load.selectedJobId = 0 /\ Len(jobList) > 0 /\ firstCompleted # 0
                      THEN Selected(listed, firstCompleted, "auto", load.at)
                      ELSE listed
    /\ UNCHANGED exceptHook

\* api.results.getJobs rejected (useJobsManagement.ts 58-64)
LoadJobsRejects(load) ==
    /\ hook.name = "useJobsManagement"
    /\ load \in hook.loads
    /\ hook' = [hook EXCEPT !.jobs = <<>>, !.error = TRUE, !.loading = FALSE,
                            !.loads = hook.loads \ {load}]
    /\ UNCHANGED exceptHook

\* The calls of loadJobs that wait for the list
Loads == IF hook.name = "useJobsManagement" THEN hook.loads ELSE {}

NextJobs ==
    \/ MountJobsManagement
    \/ \E j \in 1..MaxListed, status \in {"completed", "failed"} : JobReaches(j, status)
    \/ Refetch
    \/ \E jobId \in 0..MaxListed : UserSelects(jobId)
    \/ \E load \in Loads : LoadJobsResolves(load)
    \/ \E load \in Loads : LoadJobsRejects(load)

SpecJobs == Init /\ [][NextJobs]_vars

\* C38: a job chosen by the user is never replaced by the auto-selection of
\* a load that was started before the user chose.
UserChoiceKept ==
    hook.name = "useJobsManagement" /\ hook.chosen.by = "auto" =>
       ~(/\ hook.chosen.over.by = "user"
         /\ hook.chosen.over.jobId # 0
         /\ hook.chosen.startedAt < hook.chosen.over.at)
====
